---- MODULE Spec2Model ----
(***************************************************************************)
(* A model of the settlement core of the remote gaming server: the wallet  *)
(* (ledger) operations of package wallet, the game-cycle engine of package *)
(* game and the reel evaluator of slots.go.  Requests are served by        *)
(* independent workers (one goroutine per HTTP request) that share only    *)
(* the database, so every step of a worker is one database statement (or   *)
(* one database transaction) together with the local computation that      *)
(* follows it.  Amounts are integers in minor currency units.              *)
(***************************************************************************)
EXTENDS Integers, Sequences, FiniteSets, TLC

\* balances, transactions, sessions and cycles are the tables of the database; proc is
\* the state of each worker; calls and faults count the calls started and the storage
\* faults injected; opening keeps the balances at start and resolved the results that
\* VoidGame and ResumeGame calls returned (both are history, never read by a step).
\* control is the state of the access-control service, players the status column of
\* the players table and limits the player_limits table.
\* calc is the call of a library function (Money arithmetic, the reel evaluator) under
\* way: its name, its arguments and what it returned.
VARIABLES balances, transactions, sessions, cycles, proc, calls, faults, opening, resolved,
\* rng is the random number service: its counter of samples and the call under way
\* with the locals of the method that was called.
\* server is the process: the phase main is in, the /health request under way, the last
\* response to one, the result of the last self-test and the requests taken.
\* limitsvc is the limits service seen over time: the clock, the player_limits row with
\* its effective_at, the last call made, and (history) the limits an increase left
\* pending.
\* audit is the audit store: whether its INSERT of an event fails.
\* rngShared is one random number service used by several goroutines: its mutex, its
\* counters and the position of each goroutine in the method it called.
          control, players, limits, calc, rng, server, limitsvc, audit, rngShared

vars == <<balances, transactions, sessions, cycles, proc, calls, faults, opening, resolved,
          control, players, limits, calc, rng, server, limitsvc, audit, rngShared>>

\* What no step of the wallet or of the engine writes.
outside == <<control, players, limits, calc, rng, server, limitsvc, audit, rngShared>>

\* ------------------------------------------------------------------ bounds

\* Calls started in one behaviour, over all workers.
MaxCalls == 2

\* Play requests among them.
MaxPlays == 1

\* Storage faults (a failed statement, a cancelled context) injected in one behaviour.
MaxFaults == 1

\* The workers that serve requests concurrently.
Procs == {1, 2}

Players == {"p1", "p2"}

\* Amounts a wallet call is made with (minor units): invalid, zero, small, exactly the
\* real-money balance a player starts with, and more than it.
Amounts == {-10, 0, 10, 500, 510}

\* References of wallet calls made from outside the engine (a cycle id, a payment id).
ExtRefs == {90}

\* Balances a player may hold at start: without and with a bonus balance.
Openings == { [real |-> 500, bonus |-> 0], [real |-> 500, bonus |-> 10] }

\* ------------------------------------------------------------------ Money

\* No library call is under way.
NoCalc == [fn |-> "-"]

Currencies == {"USD", "EUR"}

\* Money values: an amount in minor units and a currency code.
Monies == [amount : {-200, 100, 300, 1000}, currency : Currencies]

\* Money.Add: the amounts are added and the receiver's currency is kept; the other
\* value's currency is not looked at.
Add(m, other) == [amount |-> m.amount + other.amount, currency |-> m.currency]

\* Money.Sub
Sub(m, other) == [amount |-> m.amount - other.amount, currency |-> m.currency]

\* ------------------------------------------------------------------ the random number service

\* Width of the machine integers: int64 is scaled to IntBits bits, and the 63 bits of
\* a draw to IntBits - 1.
IntBits == 4

MaxInt == 2 ^ (IntBits - 1) - 1

MinInt == 0 - 2 ^ (IntBits - 1)

\* Two's-complement wrap-around of a signed machine integer.
Wrap(x) == ((x - MinInt) % (2 ^ IntBits)) + MinInt

\* Values one read of the entropy source may give: buf >> 1.
DrawValues == 0 .. MaxInt

\* Longest slice and longest weight list a call is made with.
MaxLen == 3

\* The service as New builds it, no call under way.
RngIdle ==
    [samples |-> 0, fn |-> "idle", pc |-> "idle", max |-> 0, threshold |-> 0, n |-> 0,
     read |-> FALSE, res |-> 0, err |-> "nil",
     lo |-> 0, hi |-> 0, input |-> <<>>, slice |-> <<>>, draws |-> <<>>, i |-> 0,
     weights |-> <<>>, total |-> 0, counts |-> <<>>, healthy |-> FALSE]

\* float64 values are modelled by the integers they hold exactly, scaled: MaxFloat is
\* the largest finite value and Inf what a sum beyond it gives.
MaxFloat == 8

Inf == MaxFloat + 1

\* a + b in float64, for a, b >= 0
FAdd(a, b) == IF a = Inf \/ b = Inf \/ a + b > MaxFloat THEN Inf ELSE a + b

\* GenerateFloat divides a draw from [0, 1<<53) by 1<<53; the 53 bits are scaled too.
Precision == 2 ^ (IntBits - 2)

\* Weights a list is made of: negative, zero, small, and the largest finite value.
Weights == {-1, 0, 1, 2, MaxFloat}

\* cumulative after the first k weights
RECURSIVE Cumulative(_, _)
Cumulative(weights, k) ==
    IF k = 0 THEN 0 ELSE FAdd(Cumulative(weights, k - 1), weights[k])

\* target < cumulative, where target = r * total and r = n / Precision: with an
\* infinite total the target is +Inf (or NaN, for r = 0) and is below nothing.
Below(n, total, cumulative) ==
    IF total = Inf THEN FALSE
    ELSE IF cumulative = Inf THEN TRUE
    ELSE n * total < cumulative * Precision

\* The checks SelectWeighted makes before it draws.
CheckWeights(weights) ==
    IF Len(weights) = 0 THEN "ErrEmptyWeights"
    ELSE IF \E k \in DOMAIN weights : weights[k] < 0 THEN "ErrNegativeWeight"
    ELSE IF Cumulative(weights, Len(weights)) <= 0 THEN "ErrZeroTotal"
    ELSE "nil"

\* The walk over the cumulative sums: the first index (from 0) whose cumulative sum
\* the target is below; the last index if there is none.
Select(weights, total, n) ==
    LET hits == {i \in 0 .. Len(weights) - 1 : Below(n, total, Cumulative(weights, i + 1))}
    IN  IF hits = {} THEN Len(weights) - 1
        ELSE CHOOSE i \in hits : \A h \in hits : i <= h

\* Samples a self-test draws (sampleSize) and the bins it sorts them into, scaled.
SampleSize == 6

Bins == 2

RECURSIVE SquaredDeviations(_, _, _)
\* The sum over the bins of (bins * count - samples)^2, which is (bins^2) times the sum
\* of the squared differences between a count and the expected count.
SquaredDeviations(counts, samples, k) ==
    IF k = 0 THEN 0
    ELSE (Len(counts) * counts[k] - samples) * (Len(counts) * counts[k] - samples)
         + SquaredDeviations(counts, samples, k - 1)

\* chiSquareTest: chiSquare < criticalValue, where chiSquare is the sum of
\* diff^2 / expected and criticalValue is 134.6 for 100 bins and
\* (bins - 1) + 2.576 * sqrt(2 * (bins - 1)) otherwise (2.576 = 322 / 125).
ChiSquarePassed(counts, samples) ==
    LET b  == Len(counts)
        bn == b * samples
        s  == SquaredDeviations(counts, samples, b)
        d  == s - (b - 1) * bn
    IN  IF b = 100 THEN 10 * s < 1346 * bn
        ELSE d <= 0 \/ (125 * d) * (125 * d) < 322 * 322 * bn * bn * 2 * (b - 1)

\* A threshold that rejects nothing but the largest draw.
NoRejection(max) == MaxInt

\* threshold := uint64(1<<63-1) - (uint64(1<<63-1) % uint64(max))
RejectionThreshold(max) == MaxInt - (MaxInt % max)

\* The method that was called returns res and err to its caller.
RngDone(r, res, err) == [r EXCEPT !.pc = "done", !.res = res, !.err = err]

\* An exchange that writes only one of the two positions.
SwapOverwrite(slice, i, j) == [slice EXCEPT ![i + 1] = slice[j + 1]]

\* slice[i], slice[j] = slice[j], slice[i] (positions counted from 0)
Swap(slice, i, j) == [slice EXCEPT ![i + 1] = slice[j + 1], ![j + 1] = slice[i + 1]]

RECURSIVE RngReturn(_, _, _)

\* GenerateInt is entered with max: a max that is not positive is refused before the
\* entropy source is read; otherwise the threshold is computed and the loop entered.
CallGenerateInt(r, max) ==
    IF max <= 0 THEN RngReturn(r, 0, "ErrInvalidRange")
    ELSE [r EXCEPT !.pc = "draw", !.max = max, !.threshold = RejectionThreshold(max)]

\* GenerateInt returns v and err into the method that called it.
RngReturn(r, v, err) ==
    CASE r.fn = "GenerateInt" -> RngDone(r, v, err)
      [] r.fn = "GenerateIntRange" ->
            IF err # "nil" THEN RngDone(r, 0, err) ELSE RngDone(r, Wrap(r.lo + v), "nil")
      [] r.fn = "Shuffle" ->
            IF err # "nil" THEN RngDone(r, 0, err)
            ELSE LET next == [r EXCEPT !.slice = Swap(r.slice, r.i, v),
                                       !.draws = Append(r.draws, v), !.i = r.i - 1]
                 IN  IF next.i > 0 THEN CallGenerateInt(next, next.i + 1)
                     ELSE RngDone(next, 0, "nil")
      [] r.fn = "HealthCheck" ->
            IF err # "nil" THEN [RngDone(r, 0, err) EXCEPT !.healthy = FALSE]
            ELSE LET next == [r EXCEPT !.counts[(v % Bins) + 1] = @ + 1, !.i = r.i + 1]
                 IN  IF next.i < SampleSize THEN CallGenerateInt(next, Bins)
                     ELSE [RngDone(next, 0, "nil") EXCEPT
                              !.healthy = ChiSquarePassed(next.counts, SampleSize)]
      [] r.fn = "SelectWeighted" ->
            IF err # "nil" THEN RngDone(r, 0, err)
            ELSE RngDone(r, Select(r.weights, r.total, v), "nil")

\* HealthCheck is entered: the first of its samples is asked for.
CallHealthCheck(r) ==
    CallGenerateInt([r EXCEPT !.fn = "HealthCheck", !.i = 0, !.read = FALSE,
                              !.counts = [k \in 1 .. Bins |-> 0]], Bins)

\* The service between two calls: only the counter of samples is kept.
RngRest(r) == [RngIdle EXCEPT !.samples = r.samples]

\* The goroutines that share the service.
Goroutines == {1, 2}

NoGoroutine == [fn |-> "-", pc |-> "idle", inner |-> FALSE, i |-> 0, seen |-> 0, err |-> "nil"]

\* The service as New() returns it, nobody calling it.
SharedRest ==
    [mu |-> 0, samplesGenerated |-> 0, lastHealthCheck |-> 0, drawn |-> 0,
     g |-> [t \in Goroutines |-> NoGoroutine]]

\* ------------------------------------------------------------------ the server process

NoResponse == [code |-> 0, status |-> "-", rngHealthy |-> FALSE]

\* The process when main is entered.
ServerStart ==
    [phase |-> "starting", handler |-> "idle", response |-> NoResponse,
     lastCheck |-> "none", requests |-> 0, plays |-> 0]

\* The process once main has set the router up.
Serving == [ServerStart EXCEPT !.phase = "serving", !.lastCheck = "passed"]

\* ------------------------------------------------------------------ access control and limits

\* The access-control service as NewService builds it: gaming on, no game disabled.
GamingOn == [gamingEnabled |-> TRUE, disabledGames |-> {}]

\* Every player's account is active.
AllActive == [p \in Players |-> "active"]

\* A limit that is not set (a nil *Money).
NoLimit == -1

\* The limits of a player without a player_limits row.
EmptyLimits == [dailyWager |-> NoLimit, weeklyWager |-> NoLimit, effective |-> FALSE]

Unlimited == [p \in Players |-> EmptyLimits]

\* CheckAccess: gaming as a whole, then the game, then the player's status.
CheckAccess(ctl, pls, player, game) ==
    IF ~ctl.gamingEnabled THEN "ErrGamingDisabled"
    ELSE IF game \in ctl.disabledGames THEN "ErrGameDisabled"
    ELSE IF pls[player] # "active" THEN "ErrPlayerDisabled"
    ELSE "ok"

\* getWagerTotal: the sum of the player's wager rows (all rows of a behaviour fall
\* within the last 24 hours).
RECURSIVE getWagerTotal(_, _)
getWagerTotal(log, player) ==
    IF log = <<>> THEN 0
    ELSE (IF log[1].type = "wager" /\ log[1].player = player THEN log[1].amount ELSE 0)
         + getWagerTotal(Tail(log), player)

\* CheckWagerLimit: the daily limit, then the weekly one, each only if set and effective.
CheckWagerLimit(lim, log, player, amount) ==
    LET l == lim[player]
    IN  IF l.dailyWager # NoLimit /\ l.effective
           /\ getWagerTotal(log, player) + amount > l.dailyWager
        THEN "ErrDailyWagerLimit"
        ELSE IF l.weeklyWager # NoLimit /\ l.effective
                /\ getWagerTotal(log, player) + amount > l.weeklyWager
        THEN "ErrWeeklyWagerLimit"
        ELSE "ok"

\* getDepositTotal: the sum of the player's deposit rows (all rows of a behaviour fall
\* within the last 24 hours).
RECURSIVE getDepositTotal(_, _)
getDepositTotal(log, player) ==
    IF log = <<>> THEN 0
    ELSE (IF log[1].type = "deposit" /\ log[1].player = player THEN log[1].amount ELSE 0)
         + getDepositTotal(Tail(log), player)

\* CheckDepositLimit: the daily, weekly and monthly limit in turn, each only if set and
\* effective.
CheckDepositLimit(lim, log, player, amount) ==
    LET l == lim[player]
        total == getDepositTotal(log, player)
    IN  IF l.dailyDeposit # NoLimit /\ l.effective /\ total + amount > l.dailyDeposit
        THEN "ErrDailyDepositLimit"
        ELSE IF l.weeklyDeposit # NoLimit /\ l.effective /\ total + amount > l.weeklyDeposit
        THEN "ErrWeeklyDepositLimit"
        ELSE IF l.monthlyDeposit # NoLimit /\ l.effective /\ total + amount > l.monthlyDeposit
        THEN "ErrMonthlyDepositLimit"
        ELSE "ok"

\* The limit columns of a player_limits row.
LimitTypes ==
    {"daily_deposit", "weekly_deposit", "monthly_deposit", "daily_wager", "weekly_wager",
     "daily_loss", "weekly_loss"}

\* CoolingOffPeriod (24 hours), in clock units of 8 hours.
CoolingOffPeriod == 3

\* The clock stops here.
MaxTime == 8

NoCall == [fn |-> "-", type |-> "-", amount |-> 0, at |-> 0, res |-> "-"]

NothingHeld == [prev |-> NoLimit, until |-> 0]

\* The service before any limit was set: no row for the player.
LimitsRest ==
    [now |-> 0,
     row |-> [exists |-> FALSE, cols |-> [t \in LimitTypes |-> NoLimit], effectiveAt |-> 0],
     last |-> NoCall,
     held |-> [t \in LimitTypes |-> NothingHeld]]

\* The column as GetLimits and the setters read it: currentAmount stays 0 when it is NULL.
CurrentAmount(row, type) == IF row.cols[type] = NoLimit THEN 0 ELSE row.cols[type]

\* effectiveAt of a setter: now, or now + CoolingOffPeriod when the limit is raised or
\* removed.
EffectiveAt(current, amount, now) ==
    IF amount > current \/ (amount = 0 /\ current > 0) THEN now + CoolingOffPeriod ELSE now

\* upsertLimit: the row is created if missing, then the column and effective_at of the
\* row are set (amount 0 is stored as NULL).
upsertLimit(row, type, amount, effectiveAt) ==
    [exists |-> TRUE,
     cols |-> [row.cols EXCEPT ![type] = IF amount = 0 THEN NoLimit ELSE amount],
     effectiveAt |-> effectiveAt]

\* GetLimits as the checks use it: the columns and whether EffectiveAt is before now
\* (without a row EffectiveAt is the time of the call).
GetLimits(row, now) ==
    [dailyDeposit |-> row.cols["daily_deposit"], weeklyDeposit |-> row.cols["weekly_deposit"],
     monthlyDeposit |-> row.cols["monthly_deposit"],
     dailyWager |-> row.cols["daily_wager"], weeklyWager |-> row.cols["weekly_wager"],
     effective |-> row.exists /\ row.effectiveAt < now]

\* ------------------------------------------------------------------ wallet: pure parts

NoBal == [real |-> 0, bonus |-> 0]

NoRow == [player |-> "-", type |-> "-", amount |-> 0, before |-> 0, after |-> 0, ref |-> 0]

\* Balance.Available = RealMoney + Bonus
Available(bal) == bal.real + bal.bonus

\* An amount check that treats a zero win like a zero deposit.
ValidateNoNoop(kind, amount) ==
    IF amount <= 0 THEN "ErrInvalidAmount" ELSE "ok"

\* The amount check each operation starts with: "noop" is CreditWin's (nil, nil).
Validate(kind, amount) ==
    CASE kind = "win" /\ amount < 0 -> "ErrInvalidAmount"
      [] kind = "win" /\ amount = 0 -> "noop"
      [] kind # "win" /\ amount <= 0 -> "ErrInvalidAmount"
      [] OTHER -> "ok"

\* A funds check that counts only the real money for a wager.
EnoughFundsRealOnly(kind, bal, amount) ==
    CASE kind \in {"withdrawal", "wager"} -> ~(bal.real < amount)
      [] OTHER -> TRUE

\* A funds check that refuses an amount equal to the balance.
EnoughFundsStrict(kind, bal, amount) ==
    CASE kind = "withdrawal" -> bal.real > amount
      [] kind = "wager" -> Available(bal) > amount
      [] OTHER -> TRUE

\* The funds check made on the balance that GetBalance returned.
EnoughFunds(kind, bal, amount) ==
    CASE kind = "withdrawal" -> ~(bal.real < amount)
      [] kind = "wager" -> ~(Available(bal) < amount)
      [] OTHER -> TRUE

\* A wallet that subtracts the amount whatever the type of the transaction.
NewBalanceDebit(kind, bal, amount) == bal.real - amount

\* newBalance := balance.RealMoney.Add(amount) or .Sub(amount)
NewBalance(kind, bal, amount) ==
    IF kind \in {"deposit", "win"} THEN bal.real + amount ELSE bal.real - amount

\* A record whose balance_after adds the amount whatever the type of the transaction.
MakeTxBadAfter(kind, player, amount, bal, ref) ==
    [player |-> player, type |-> kind, amount |-> amount,
     before |-> bal.real, after |-> bal.real + amount, ref |-> ref]

\* The Transaction record an operation builds before it opens its database transaction.
MakeTx(kind, player, amount, bal, ref) ==
    [player |-> player, type |-> kind, amount |-> amount,
     before |-> bal.real, after |-> NewBalance(kind, bal, amount), ref |-> ref]

\* The UPDATE without its WHERE clause: every row of balances takes the new amount.
UpdateBalanceAll(bals, row) ==
    [p \in DOMAIN bals |-> [bals[p] EXCEPT !.real = row.after]]

\* UPDATE balances SET real_money_amount = $1 WHERE player_id = $3
UpdateBalance(bals, row) ==
    [bals EXCEPT ![row.player].real = row.after]

\* The statements of one database transaction, in order; a fault may hit any of them.
TxSteps == <<"begin", "update", "insert", "commit">>

TxFaults == {TxSteps[i] : i \in DOMAIN TxSteps} \cup {"none"}

\* A database transaction without the rollback: a fault after the UPDATE leaves the
\* new balance in place.
RunTxNoRollback(bals, log, row, fault) ==
    CASE fault = "none" -> <<UpdateBalance(bals, row), Append(log, row)>>
      [] fault \in {"insert", "commit"} -> <<UpdateBalance(bals, row), log>>
      [] OTHER -> <<bals, log>>

\* BeginTx; UPDATE balances; INSERT INTO transactions; Commit, with deferred Rollback:
\* the pair <<balances, transactions>> the database holds afterwards.
RunTx(bals, log, row, fault) ==
    IF fault = "none"
    THEN <<UpdateBalance(bals, row), Append(log, row)>>
    ELSE <<bals, log>>

\* ------------------------------------------------------------------ games and reels

Games ==
    [g \in {"fortune-slots", "lucky-sevens"} |->
        IF g = "fortune-slots"
        THEN [minBet |-> 10, maxBet |-> 10000, enabled |-> TRUE]
        ELSE [minBet |-> 25, maxBet |-> 5000, enabled |-> TRUE]]

fortuneSlotsReels ==
    << <<"CHERRY", "LEMON", "ORANGE", "PLUM", "GRAPES", "BELL", "BAR", "7", "WILD",
         "CHERRY", "LEMON", "ORANGE", "PLUM", "GRAPES", "BELL", "BAR",
         "CHERRY", "LEMON", "ORANGE", "PLUM", "GRAPES">>,
       <<"CHERRY", "LEMON", "ORANGE", "PLUM", "GRAPES", "BELL", "BAR", "7", "WILD",
         "CHERRY", "LEMON", "ORANGE", "PLUM", "GRAPES", "BELL", "BAR",
         "CHERRY", "LEMON", "ORANGE", "PLUM", "GRAPES", "BELL">>,
       <<"CHERRY", "LEMON", "ORANGE", "PLUM", "GRAPES", "BELL", "BAR", "7", "WILD",
         "CHERRY", "LEMON", "ORANGE", "PLUM", "GRAPES", "BELL", "BAR",
         "CHERRY", "LEMON", "ORANGE", "PLUM", "GRAPES", "BELL", "BAR">> >>

\* Payout per unit bet (100 minor units), keyed by the three symbols of the line.
fortuneSlotsPaytable ==
    (<<"7", "7", "7">> :> 5000) @@ (<<"WILD", "WILD", "WILD">> :> 2500) @@
    (<<"BAR", "BAR", "BAR">> :> 1000) @@ (<<"BELL", "BELL", "BELL">> :> 500) @@
    (<<"GRAPES", "GRAPES", "GRAPES">> :> 300) @@ (<<"PLUM", "PLUM", "PLUM">> :> 200) @@
    (<<"ORANGE", "ORANGE", "ORANGE">> :> 150) @@ (<<"LEMON", "LEMON", "LEMON">> :> 100) @@
    (<<"CHERRY", "CHERRY", "CHERRY">> :> 80) @@ (<<"CHERRY", "CHERRY", "*">> :> 20) @@
    (<<"CHERRY", "*", "*">> :> 10)

WinLine(reels, count, payout) ==
    [line |-> 1, symbols |-> reels, count |-> count, payout |-> payout]

\* The first of s1, s2, s3 that is not the wild symbol ("" when all are wild).
BaseSymbol(reels) ==
    IF reels[1] # "WILD" THEN reels[1]
    ELSE IF reels[2] # "WILD" THEN reels[2]
    ELSE IF reels[3] # "WILD" THEN reels[3]
    ELSE ""

\* The condition under which the evaluator tries a wild substitution.
WildMatch(reels) ==
    LET s1 == reels[1]
        s2 == reels[2]
        s3 == reels[3]
    IN  \/ s1 = s2 /\ (s3 = "WILD" \/ s3 = s1)
        \/ s2 = s3 /\ (s1 = "WILD" \/ s1 = s2)
        \/ s1 = s3 /\ (s2 = "WILD" \/ s2 = s1)

\* The win lines of three reel symbols: the first rule that matches, in the order
\* exact paytable key, wild substitution, CHERRY-CHERRY-*, CHERRY-*-*.
evaluateWins(reels) ==
    LET base == BaseSymbol(reels)
        T    == fortuneSlotsPaytable
    IN  IF Len(reels) < 3 THEN <<>>
        ELSE IF reels \in DOMAIN T THEN <<WinLine(reels, 3, T[reels])>>
        ELSE IF WildMatch(reels) /\ base # "" /\ <<base, base, base>> \in DOMAIN T
             THEN <<WinLine(reels, 3, T[<<base, base, base>>])>>
        ELSE IF reels[1] = "CHERRY" /\ reels[2] = "CHERRY"
             THEN <<WinLine(reels, 2, T[<<"CHERRY", "CHERRY", "*">>])>>
        ELSE IF reels[1] = "CHERRY"
             THEN <<WinLine(reels, 1, T[<<"CHERRY", "*", "*">>])>>
        ELSE <<>>

\* Reel positions (0-based, as GenerateInt returns them) the model draws from:
\* 7-7-7 (a win) and LEMON-ORANGE-PLUM (no win).
Draws == { <<7, 7, 7>>, <<1, 2, 3>> }

\* The outcome built from three reel positions.
SlotOutcome(idx) ==
    LET reels == [i \in 1..3 |-> fortuneSlotsReels[i][idx[i] + 1]]
        lines == evaluateWins(reels)
    IN  [reels |-> reels, winLines |-> lines, isWin |-> Len(lines) > 0]

RECURSIVE TotalPayout(_, _)
TotalPayout(lines, wager) ==
    IF lines = <<>> THEN 0
    ELSE (Head(lines).payout * wager) \div 100 + TotalPayout(Tail(lines), wager)

\* A payout that ignores the paytable: every win pays the wager back.
calculateWinFlat(outcome, wager) ==
    IF ~outcome.isWin \/ Len(outcome.winLines) = 0 THEN 0 ELSE wager

\* A payout that rounds the scaled amount up instead of truncating it.
calculateWinRoundedUp(outcome, wager) ==
    IF ~outcome.isWin \/ Len(outcome.winLines) = 0 THEN 0
    ELSE (outcome.winLines[1].payout * wager + 99) \div 100

\* The win: the payouts of the win lines, scaled from the unit bet to the wager.
calculateWin(outcome, wager) ==
    IF ~outcome.isWin \/ Len(outcome.winLines) = 0 THEN 0
    ELSE TotalPayout(outcome.winLines, wager)

\* ------------------------------------------------------------------ worker state

NoOutcome == [reels |-> <<>>, winLines |-> <<>>, isWin |-> FALSE]

Idle ==
    [op |-> "idle", pc |-> "idle", res |-> "", wpc |-> "-",
     kind |-> "-", player |-> "-", amount |-> 0, ref |-> 0, bal |-> NoBal, row |-> NoRow,
     session |-> 0, wager |-> 0, cycle |-> 0, avail |-> 0,
     outcome |-> NoOutcome, win |-> 0, newAvail |-> 0, log |-> "-"]

\* The name of the wallet method that records transactions of a type.
WalletOp(kind) ==
    CASE kind = "deposit" -> "Deposit"
      [] kind = "withdrawal" -> "Withdraw"
      [] kind = "wager" -> "PlaceWager"
      [] kind = "win" -> "CreditWin"

WalletOps == {"Deposit", "Withdraw", "PlaceWager", "CreditWin"}

Free(w) == proc[w].pc \in {"idle", "done"}

\* Calls started so far.
Started == calls.plays + calls.others

\* A request is handed to the first worker that is free (workers are interchangeable).
Accepts(w) ==
    /\ Free(w)
    /\ \A v \in Procs : v < w => ~Free(v)
    /\ Started < MaxCalls

\* A storage fault is injected (or not) in this step.
Inject(fault) ==
    /\ fault => faults < MaxFaults
    /\ faults' = IF fault THEN faults + 1 ELSE faults

Quiescent == \A w \in Procs : Free(w)

\* A worker's record once its call has returned res: what the caller was given (the
\* result, and the cycle with its wager, win and outcome); the locals are gone.
Done(pr, res) ==
    [Idle EXCEPT !.op = pr.op, !.pc = "done", !.res = res, !.player = pr.player,
                 !.cycle = pr.cycle, !.wager = pr.wager, !.win = pr.win,
                 !.outcome = pr.outcome]

\* The audit store takes events.
AuditUp == [down |-> FALSE]

\* audit.Log as the operations call it: `s.audit.Log(...)` as a statement, so that the
\* error LogEvent returns is computed and dropped; log keeps it ("nil" or "err", "-"
\* when the call made none).
LogCall(r) == [r EXCEPT !.log = IF audit.down THEN "err" ELSE "nil"]

\* Play after a wallet call it made returned res: it goes on after PlaceWager and after
\* a win credit only if they succeeded, and returns the outcome error after the refund
\* whatever the refund returned.
PlayContinue(r, res) ==
    CASE r.pc = "wager" -> IF res = "ok" THEN [r EXCEPT !.pc = "generate"] ELSE Done(r, res)
      [] r.pc = "refund" -> Done(r, "ErrOutcome")
      [] r.pc = "credit" -> IF res = "ok" THEN [r EXCEPT !.pc = "balance2"] ELSE Done(r, res)

\* VoidGame and ResumeGame after their credit returned res: they go on to the status
\* update only if the credit succeeded.
ResolveContinue(r, res) ==
    IF res = "ok" THEN [r EXCEPT !.pc = "setstatus"] ELSE Done(r, res)

\* Where a worker goes when the wallet method it is in returns res (and row): back into
\* the engine operation that called it, or, called by a request, to the caller.
Continue(pr, res, row) ==
    LET r == [pr EXCEPT !.row = row, !.wpc = "-"]
    IN  CASE pr.op = "Play" -> PlayContinue(r, res)
          [] pr.op \in {"VoidGame", "ResumeGame"} -> ResolveContinue(r, res)
          [] pr.op \in {"Deposit", "Withdraw"} /\ res = "ok" -> LogCall(Done(r, res))
          [] OTHER -> Done(r, res)

\* History: how many VoidGame and ResumeGame calls on each cycle have returned with
\* each result.
Count(h, c, res) == IF <<c, res>> \in DOMAIN h THEN h[<<c, res>>] ELSE 0

Bump(h, c, res) == (<<c, res>> :> Count(h, c, res) + 1) @@ h

Note(h, pr) ==
    IF pr.op \in {"VoidGame", "ResumeGame"} /\ pr.pc = "done"
    THEN Bump(h, pr.cycle, pr.res)
    ELSE h

\* A worker enters a wallet method: the arguments are bound, nothing is read yet.
CallWallet(pr, kind, player, amount, ref) ==
    [pr EXCEPT !.kind = kind, !.player = player, !.amount = amount, !.ref = ref,
               !.bal = NoBal, !.row = NoRow, !.wpc = "read"]

\* ------------------------------------------------------------------ wallet: steps

StartWallet(w, kind, player, amount, ref) ==
    /\ Accepts(w)
    /\ calls' = [calls EXCEPT !.others = @ + 1]
    /\ proc' = [proc EXCEPT ![w] =
          CallWallet([Idle EXCEPT !.op = WalletOp(kind), !.pc = "call"],
                     kind, player, amount, ref)]
    /\ UNCHANGED <<outside, balances, transactions, sessions, cycles, opening, resolved, faults>>

Deposit(w) ==
    \E player \in Players, amount \in Amounts, ref \in ExtRefs :
        StartWallet(w, "deposit", player, amount, ref)

Withdraw(w) ==
    \E player \in Players, amount \in Amounts, ref \in ExtRefs :
        StartWallet(w, "withdrawal", player, amount, ref)

PlaceWager(w) ==
    \E player \in Players, amount \in Amounts, ref \in ExtRefs :
        StartWallet(w, "wager", player, amount, ref)

CreditWin(w) ==
    \E player \in Players, amount \in Amounts, ref \in ExtRefs :
        StartWallet(w, "win", player, amount, ref)

\* The amount check, GetBalance (one SELECT, outside any transaction), the funds
\* check and the construction of the Transaction record.
WalletRead(w) ==
    LET pr == proc[w]
        v  == Validate(pr.kind, pr.amount)
    IN  /\ pr.wpc = "read"
        /\ \E fault \in BOOLEAN :
             /\ fault => v = "ok"
             /\ Inject(fault)
             /\ proc' = [proc EXCEPT ![w] =
                CASE v = "ErrInvalidAmount" -> Continue(pr, "ErrInvalidAmount", NoRow)
                  [] v = "noop" -> Continue(pr, "ok", NoRow)
                  [] v = "ok" /\ fault -> Continue(pr, "DbError", NoRow)
                  [] v = "ok" /\ ~fault /\ ~EnoughFunds(pr.kind, balances[pr.player], pr.amount) ->
                        Continue(pr, "ErrInsufficientFunds", NoRow)
                  [] OTHER ->
                        [pr EXCEPT !.bal = balances[pr.player], !.wpc = "tx",
                                   !.row = MakeTx(pr.kind, pr.player, pr.amount,
                                                  balances[pr.player], pr.ref)]]
        /\ resolved' = Note(resolved, proc'[w])
        /\ UNCHANGED <<outside, balances, transactions, sessions, cycles, calls, opening>>

\* The database transaction: it commits the new balance and the Transaction row
\* together, or a fault rolls it back.
WalletTx(w) ==
    LET pr == proc[w]
    IN  /\ pr.wpc = "tx"
        /\ \E fault \in TxFaults :
             LET db == RunTx(balances, transactions, pr.row, fault)
             IN  /\ Inject(fault # "none")
                 /\ balances' = db[1]
                 /\ transactions' = db[2]
                 /\ proc' = [proc EXCEPT ![w] =
                       IF fault = "none"
                       THEN Continue(pr, "ok", pr.row)
                       ELSE Continue(pr, "DbError", NoRow)]
        /\ resolved' = Note(resolved, proc'[w])
        /\ UNCHANGED <<outside, sessions, cycles, calls, opening>>

\* ------------------------------------------------------------------ the ledger alone

InitLedger ==
    /\ \E b \in Openings : balances = [p \in Players |-> b]
    /\ opening = balances
    /\ transactions = <<>>
    /\ sessions = <<>>
    /\ cycles = <<>>
    /\ proc = [w \in Procs |-> Idle]
    /\ calls = [plays |-> 0, others |-> 0]
    /\ faults = 0
    /\ resolved = <<>>
    /\ control = GamingOn
    /\ players = AllActive
    /\ limits = Unlimited
    /\ calc = NoCalc
    /\ rng = RngIdle
    /\ server = Serving
    /\ limitsvc = LimitsRest
    /\ rngShared = SharedRest
    /\ audit = AuditUp

NextLedger ==
    \E w \in Procs :
        \/ Deposit(w)
        \/ Withdraw(w)
        \/ PlaceWager(w)
        \/ CreditWin(w)
        \/ WalletRead(w)
        \/ WalletTx(w)

SpecLedger == InitLedger /\ [][NextLedger]_vars

\* ------------------------------------------------------------------ engine: Play

\* Wagers a play request is made with: below MinBet, within the limits and covered by the
\* balance, within the limits and above the balance, and above MaxBet.
Wagers == {5, 500, 1000, 20000}

\* Ids that name no row (a session or a cycle that does not exist).
MissingIds == {99}

\* Checks that leave the session status out.
PlayChecksAnyStatus(ss, sid, wager) ==
    IF sid \notin DOMAIN ss THEN "ErrSessionNotFound"
    ELSE IF ss[sid].game \notin DOMAIN Games THEN "ErrGameNotFound"
    ELSE IF ~Games[ss[sid].game].enabled THEN "ErrGameDisabled"
    ELSE IF wager < Games[ss[sid].game].minBet \/ wager > Games[ss[sid].game].maxBet
         THEN "ErrInvalidWager"
    ELSE "ok"

\* Checks that leave the upper wager limit out.
PlayChecksNoMax(ss, sid, wager) ==
    IF sid \notin DOMAIN ss THEN "ErrSessionNotFound"
    ELSE IF ss[sid].status # "active" THEN "ErrSessionNotActive"
    ELSE IF ss[sid].game \notin DOMAIN Games THEN "ErrGameNotFound"
    ELSE IF ~Games[ss[sid].game].enabled THEN "ErrGameDisabled"
    ELSE IF wager < Games[ss[sid].game].minBet THEN "ErrInvalidWager"
    ELSE "ok"

\* The checks Play makes on the session row it loaded and on the wager.
PlayChecks(ss, sid, wager) ==
    IF sid \notin DOMAIN ss THEN "ErrSessionNotFound"
    ELSE IF ss[sid].status # "active" THEN "ErrSessionNotActive"
    ELSE IF ss[sid].game \notin DOMAIN Games THEN "ErrGameNotFound"
    ELSE IF ~Games[ss[sid].game].enabled THEN "ErrGameDisabled"
    ELSE IF wager < Games[ss[sid].game].minBet \/ wager > Games[ss[sid].game].maxBet
         THEN "ErrInvalidWager"
    ELSE "ok"

\* A fast-fail check that lets every wager through.
BalanceCheckSkipped(bal, wager) == "ok"

\* The fast-fail check Play makes on the balance it read.
BalanceCheck(bal, wager) ==
    IF Available(bal) < wager THEN "ErrInsufficientBalance" ELSE "ok"

\* A row that stores the balance read before the wager as the balance after the cycle.
CompletedCycleStale(pr) ==
    [session |-> pr.session, player |-> pr.player, wager |-> pr.wager, win |-> pr.win,
     before |-> pr.avail, after |-> pr.avail, outcome |-> pr.outcome,
     status |-> "completed"]

\* A row that stores the reels but evaluates them anew when stored, finding no line.
CompletedCycleReevaluated(pr) ==
    [session |-> pr.session, player |-> pr.player, wager |-> pr.wager, win |-> pr.win,
     before |-> pr.avail, after |-> pr.newAvail,
     outcome |-> [pr.outcome EXCEPT !.winLines = <<>>, !.isWin = FALSE],
     status |-> "completed"]

\* The GameCycle row Play stores.
CompletedCycle(pr) ==
    [session |-> pr.session, player |-> pr.player, wager |-> pr.wager, win |-> pr.win,
     before |-> pr.avail, after |-> pr.newAvail, outcome |-> pr.outcome,
     status |-> "completed"]

\* UPDATE game_sessions SET current_balance, total_wagered + , total_won + , games_played + 1
UpdateSessionStats(ss, pr) ==
    [ss EXCEPT ![pr.session] =
        [@ EXCEPT !.current = pr.newAvail, !.wagered = @ + pr.wager,
                  !.won = @ + pr.win, !.played = @ + 1]]

\* An id generator that hands out the id of the cycle already stored.
ReusedCycleID(started) == started - started

\* cycleID := uuid.New(): an id no row has yet.
NewCycleID(started) == started + 1

\* A play request arrives.
Play(w) ==
    \E sid \in DOMAIN sessions \cup MissingIds, wager \in Wagers :
        /\ Accepts(w)
        /\ calls.plays < MaxPlays
        /\ calls' = [calls EXCEPT !.plays = @ + 1]
        /\ proc' = [proc EXCEPT ![w] =
              [Idle EXCEPT !.op = "Play", !.pc = "getsession", !.session = sid,
                           !.wager = wager, !.cycle = NewCycleID(Started)]]
        /\ UNCHANGED <<outside, balances, transactions, sessions, cycles, opening, resolved, faults>>

\* GetSession, the status check, GetGame and the wager validation.
PlayGetSession(w) ==
    LET pr == proc[w]
        chk == PlayChecks(sessions, pr.session, pr.wager)
    IN  /\ pr.op = "Play" /\ pr.pc = "getsession"
        /\ \E fault \in BOOLEAN :
             /\ Inject(fault)
             /\ proc' = [proc EXCEPT ![w] =
                IF fault THEN Done(pr, "DbError")
                ELSE IF chk # "ok" THEN Done(pr, chk)
                ELSE [pr EXCEPT !.player = sessions[pr.session].player,
                                !.pc = "getbalance"]]
        /\ UNCHANGED <<outside, balances, transactions, sessions, cycles, calls, opening, resolved>>

\* GetBalance and the fast-fail balance check; then the call of PlaceWager.
PlayGetBalance(w) ==
    LET pr == proc[w]
    IN  /\ pr.op = "Play" /\ pr.pc = "getbalance"
        /\ \E fault \in BOOLEAN :
             /\ Inject(fault)
             /\ proc' = [proc EXCEPT ![w] =
                IF fault THEN Done(pr, "DbError")
                ELSE IF BalanceCheck(balances[pr.player], pr.wager) # "ok"
                     THEN Done(pr, BalanceCheck(balances[pr.player], pr.wager))
                ELSE CallWallet([pr EXCEPT !.avail = Available(balances[pr.player]),
                                           !.pc = "wager"],
                                "wager", pr.player, pr.wager, pr.cycle)]
        /\ UNCHANGED <<outside, balances, transactions, sessions, cycles, calls, opening, resolved>>

\* generateSlotOutcome and calculateWin: three draws from the RNG, any of which may
\* fail (the empty draw); on failure Play calls CreditWin with the wager, on a win it
\* calls CreditWin with the win amount.
PlayGenerate(w) ==
    LET pr == proc[w]
    IN  /\ pr.op = "Play" /\ pr.pc = "generate"
        /\ \E d \in Draws \cup {<<>>} :
             LET o   == SlotOutcome(d)
                 win == calculateWin(o, pr.wager)
             IN  proc' = [proc EXCEPT ![w] =
                    IF d = <<>>
                    THEN CallWallet([pr EXCEPT !.pc = "refund"],
                                    "win", pr.player, pr.wager, pr.cycle)
                    ELSE IF win > 0
                    THEN CallWallet([pr EXCEPT !.outcome = o, !.win = win, !.pc = "credit"],
                                    "win", pr.player, win, pr.cycle)
                    ELSE [pr EXCEPT !.outcome = o, !.win = 0, !.pc = "balance2"]]
        /\ UNCHANGED <<outside, balances, transactions, sessions, cycles, calls, opening, resolved, faults>>

\* newBalance, _ := GetBalance: the error is dropped, so a failed read leaves a nil
\* balance whose dereference aborts the request.
PlayGetNewBalance(w) ==
    LET pr == proc[w]
    IN  /\ pr.op = "Play" /\ pr.pc = "balance2"
        /\ \E fault \in BOOLEAN :
             /\ Inject(fault)
             /\ proc' = [proc EXCEPT ![w] =
                IF fault THEN Done(pr, "panic")
                ELSE [pr EXCEPT !.newAvail = Available(balances[pr.player]),
                                !.pc = "insertcycle"]]
        /\ UNCHANGED <<outside, balances, transactions, sessions, cycles, calls, opening, resolved>>

\* INSERT INTO game_cycles, status completed.
PlayInsertCycle(w) ==
    LET pr == proc[w]
    IN  /\ pr.op = "Play" /\ pr.pc = "insertcycle"
        /\ \E fault \in BOOLEAN :
             /\ Inject(fault)
             /\ IF fault
                THEN /\ proc' = [proc EXCEPT ![w] = Done(pr, "DbError")]
                     /\ cycles' = cycles
                ELSE /\ proc' = [proc EXCEPT ![w].pc = "updatesession"]
                     /\ cycles' = (pr.cycle :> CompletedCycle(pr)) @@ cycles
        /\ UNCHANGED <<outside, balances, transactions, sessions, calls, opening, resolved>>

\* Wins from this amount on are written to the audit log.
LargeWin == 10000

\* UPDATE game_sessions; the audit event of a large win; then the result is returned.
PlayUpdateSession(w) ==
    LET pr == proc[w]
    IN  /\ pr.op = "Play" /\ pr.pc = "updatesession"
        /\ \E fault \in BOOLEAN :
             /\ Inject(fault)
             /\ IF fault
                THEN /\ proc' = [proc EXCEPT ![w] = Done(pr, "DbError")]
                     /\ sessions' = sessions
                ELSE /\ proc' = [proc EXCEPT ![w] =
                             IF pr.win >= LargeWin THEN LogCall(Done(pr, "ok"))
                             ELSE Done(pr, "ok")]
                     /\ sessions' = UpdateSessionStats(sessions, pr)
        /\ UNCHANGED <<outside, balances, transactions, cycles, calls, opening, resolved>>

\* ------------------------------------------------------------------ engine: EndSession

\* A request to end a session arrives.
EndSession(w) ==
    \E sid \in DOMAIN sessions \cup MissingIds :
        /\ Accepts(w)
        /\ calls' = [calls EXCEPT !.others = @ + 1]
        /\ proc' = [proc EXCEPT ![w] =
              [Idle EXCEPT !.op = "EndSession", !.pc = "endget", !.session = sid]]
        /\ UNCHANGED <<outside, balances, transactions, sessions, cycles, opening, resolved, faults>>

\* GetSession: the session row is loaded, whatever its status.
EndGetSession(w) ==
    LET pr == proc[w]
    IN  /\ pr.op = "EndSession" /\ pr.pc = "endget"
        /\ \E fault \in BOOLEAN :
             /\ Inject(fault)
             /\ proc' = [proc EXCEPT ![w] =
                IF fault THEN Done(pr, "DbError")
                ELSE IF pr.session \notin DOMAIN sessions THEN Done(pr, "ErrSessionNotFound")
                ELSE [pr EXCEPT !.player = sessions[pr.session].player,
                                !.pc = "endupdate"]]
        /\ UNCHANGED <<outside, balances, transactions, sessions, cycles, calls, opening, resolved>>

\* UPDATE game_sessions SET ended_at, status = 'completed' WHERE id: no condition on the
\* status the row has.
EndUpdate(w) ==
    LET pr == proc[w]
    IN  /\ pr.op = "EndSession" /\ pr.pc = "endupdate"
        /\ \E fault \in BOOLEAN :
             /\ Inject(fault)
             /\ IF fault
                THEN /\ proc' = [proc EXCEPT ![w] = Done(pr, "DbError")]
                     /\ sessions' = sessions
                ELSE /\ proc' = [proc EXCEPT ![w] = LogCall(Done(pr, "ok"))]
                     /\ sessions' = [sessions EXCEPT ![pr.session].status = "completed"]
        /\ UNCHANGED <<outside, balances, transactions, cycles, calls, opening, resolved>>

\* ------------------------------------------------------------------ engine: interrupted cycles

\* No serialization: a cycle row is never held.
Unlocked(c) == FALSE

\* A cycle row is held by a VoidGame or ResumeGame call from its status check to its
\* status update; other calls on the cycle wait.
Locked(c) ==
    \E w \in Procs :
        /\ proc[w].op \in {"VoidGame", "ResumeGame"}
        /\ proc[w].cycle = c
        /\ proc[w].pc \in {"credit", "setstatus"}

\* The result of asking for a transition out of status `from`.
CheckStatus(cs, c, from) ==
    IF c \notin DOMAIN cs THEN "ErrCycleNotFound"
    ELSE IF cs[c].status # from THEN "ErrInvalidState"
    ELSE "ok"

SetStatus(cs, c, to) == [cs EXCEPT ![c].status = to]

\* MarkInterrupted(cycleID, reason): in_progress -> interrupted.
MarkInterrupted(w) ==
    \E c \in DOMAIN cycles \cup MissingIds :
        LET chk == CheckStatus(cycles, c, "in_progress")
        IN  /\ Accepts(w)
            /\ ~Locked(c)
            /\ calls' = [calls EXCEPT !.others = @ + 1]
            /\ proc' = [proc EXCEPT ![w] =
                  Done([Idle EXCEPT !.op = "MarkInterrupted", !.cycle = c], chk)]
            /\ cycles' = IF chk = "ok" THEN SetStatus(cycles, c, "interrupted") ELSE cycles
            /\ UNCHANGED <<outside, balances, transactions, sessions, opening, resolved, faults>>

StartResolve(w, op) ==
    \E c \in DOMAIN cycles \cup MissingIds :
        /\ Accepts(w)
        /\ calls' = [calls EXCEPT !.others = @ + 1]
        /\ proc' = [proc EXCEPT ![w] = [Idle EXCEPT !.op = op, !.pc = "check", !.cycle = c]]
        /\ UNCHANGED <<outside, balances, transactions, sessions, cycles, opening, resolved, faults>>

VoidGame(w) == StartResolve(w, "VoidGame")

ResumeGame(w) == StartResolve(w, "ResumeGame")

\* VoidGame: the cycle must be interrupted; the held wager is credited through the
\* ledger.
VoidCheck(w) ==
    LET pr == proc[w]
        c == pr.cycle
        chk == CheckStatus(cycles, c, "interrupted")
    IN  /\ pr.op = "VoidGame" /\ pr.pc = "check"
        /\ ~Locked(c)
        /\ proc' = [proc EXCEPT ![w] =
              IF chk # "ok" THEN Done(pr, chk)
              ELSE CallWallet([pr EXCEPT !.pc = "credit", !.wager = cycles[c].wager],
                              "win", cycles[c].player, cycles[c].wager, c)]
        /\ resolved' = Note(resolved, proc'[w])
        /\ UNCHANGED <<outside, balances, transactions, sessions, cycles, calls, opening, faults>>

\* ResumeGame: the cycle must be interrupted; the win of the stored outcome, if any, is
\* credited through the ledger.
ResumeCheck(w) ==
    LET pr == proc[w]
        c == pr.cycle
        chk == CheckStatus(cycles, c, "interrupted")
        win == calculateWin(cycles[c].outcome, cycles[c].wager)
    IN  /\ pr.op = "ResumeGame" /\ pr.pc = "check"
        /\ ~Locked(c)
        /\ proc' = [proc EXCEPT ![w] =
              IF chk # "ok" THEN Done(pr, chk)
              ELSE IF win > 0
              THEN CallWallet([pr EXCEPT !.pc = "credit", !.wager = cycles[c].wager,
                                         !.outcome = cycles[c].outcome, !.win = win],
                              "win", cycles[c].player, win, c)
              ELSE [pr EXCEPT !.pc = "setstatus", !.wager = cycles[c].wager,
                              !.player = cycles[c].player,
                              !.outcome = cycles[c].outcome, !.win = 0]]
        /\ resolved' = Note(resolved, proc'[w])
        /\ UNCHANGED <<outside, balances, transactions, sessions, cycles, calls, opening, faults>>

\* The status update that ends VoidGame (voided) and ResumeGame (completed).
ResolveSet(w) ==
    LET pr == proc[w]
    IN  /\ pr.op \in {"VoidGame", "ResumeGame"} /\ pr.pc = "setstatus"
        /\ cycles' = SetStatus(cycles, pr.cycle,
                               IF pr.op = "VoidGame" THEN "voided" ELSE "completed")
        /\ proc' = [proc EXCEPT ![w] = Done(pr, "ok")]
        /\ resolved' = Note(resolved, proc'[w])
        /\ UNCHANGED <<outside, balances, transactions, sessions, calls, opening, faults>>

\* json.Marshal of a SlotOutcome: the fields under their JSON names; a nil slice of win
\* lines (what evaluateWins returns when no rule matches) is encoded as null.
Marshal(o) ==
    [reels |-> o.reels,
     win_lines |-> [null |-> o.winLines = <<>>,
                    lines |-> [i \in DOMAIN o.winLines |->
                                 [line |-> o.winLines[i].line,
                                  symbols |-> o.winLines[i].symbols,
                                  count |-> o.winLines[i].count,
                                  payout |-> o.winLines[i].payout]]],
     multiplier |-> 1,
     is_win |-> o.isWin]

\* GetHistory(playerID, limit): the recall records of the player's cycles, the outcome
\* column passed on as stored (a player never has more cycles here than the default
\* limit of 10).
GetHistory(cs, player) ==
    { [cycleID |-> c, wager |-> cs[c].wager, win |-> cs[c].win,
       before |-> cs[c].before, after |-> cs[c].after, outcome |-> Marshal(cs[c].outcome)] :
        c \in {d \in DOMAIN cs : cs[d].player = player} }

\* A listing that also returns the cycles still in progress.
GetUnfinishedGames(cs, player) ==
    { [cycleID |-> c, wagerHeld |-> cs[c].wager] :
        c \in {d \in DOMAIN cs : cs[d].player = player
                                  /\ cs[d].status \in {"in_progress", "interrupted"}} }

\* GetInterruptedGames(player): the player's cycles in status interrupted, each with
\* the wager it holds.
GetInterruptedGames(cs, player) ==
    { [cycleID |-> c, wagerHeld |-> cs[c].wager] :
        c \in {d \in DOMAIN cs : cs[d].player = player /\ cs[d].status = "interrupted"} }

\* ------------------------------------------------------------------ the engine

OpenSession(player, game, avail) ==
    [player |-> player, game |-> game, status |-> "active", opening |-> avail,
     current |-> avail, wagered |-> 0, won |-> 0, played |-> 0]

\* A cycle the database may hold at start: one left pending, in progress or interrupted
\* by an earlier request, with its wager already debited and its outcome stored.
HeldCycle(status, draw, avail) ==
    [session |-> 1, player |-> "p1", wager |-> 500, win |-> 0,
     before |-> avail + 500, after |-> avail, outcome |-> SlotOutcome(draw),
     status |-> status]

HeldCycles(avail) ==
    { (0 :> HeldCycle(st, d, avail)) :
        st \in {"in_progress", "interrupted"}, d \in {<<7, 7, 7>>, <<1, 2, 3>>} } \cup
    { (0 :> HeldCycle("pending", <<1, 2, 3>>, avail)) }

\* One player with an active session on fortune-slots and one cycle held in it; the
\* players hold a bonus balance, so that Available differs from RealMoney.
InitEngine ==
    /\ \E b \in {o \in Openings : o.bonus > 0} : balances = [p \in Players |-> b]
    /\ opening = balances
    /\ transactions = <<>>
    /\ sessions = <<OpenSession("p1", "fortune-slots", Available(balances["p1"]) + 500)>>
    /\ cycles \in HeldCycles(Available(balances["p1"]))
    /\ proc = [w \in Procs |-> Idle]
    /\ calls = [plays |-> 0, others |-> 0]
    /\ faults = 0
    /\ resolved = <<>>
    /\ calc = NoCalc
    /\ rng = RngIdle
    /\ server = Serving
    /\ limitsvc = LimitsRest
    /\ rngShared = SharedRest

\* Gaming is on, every account is active, no limit is set and the audit store is up.
Init ==
    /\ InitEngine
    /\ control = GamingOn
    /\ players = AllActive
    /\ limits = Unlimited
    /\ audit = AuditUp

Next ==
    \E w \in Procs :
        \/ Play(w)
        \/ PlayGetSession(w)
        \/ PlayGetBalance(w)
        \/ PlayGenerate(w)
        \/ PlayGetNewBalance(w)
        \/ PlayInsertCycle(w)
        \/ PlayUpdateSession(w)
        \/ EndSession(w)
        \/ EndGetSession(w)
        \/ EndUpdate(w)
        \/ MarkInterrupted(w)
        \/ VoidGame(w)
        \/ ResumeGame(w)
        \/ VoidCheck(w)
        \/ ResumeCheck(w)
        \/ ResolveSet(w)
        \/ WalletRead(w)
        \/ WalletTx(w)

Spec == Init /\ [][Next]_vars

\* The engine with its requests served one after the other: a request is accepted
\* only when no other is running.
NextSeq ==
    \E w \in Procs :
        \/ Quiescent /\ Play(w)
        \/ PlayGetSession(w)
        \/ PlayGetBalance(w)
        \/ PlayGenerate(w)
        \/ PlayGetNewBalance(w)
        \/ PlayInsertCycle(w)
        \/ PlayUpdateSession(w)
        \/ Quiescent /\ EndSession(w)
        \/ EndGetSession(w)
        \/ EndUpdate(w)
        \/ Quiescent /\ MarkInterrupted(w)
        \/ Quiescent /\ VoidGame(w)
        \/ Quiescent /\ ResumeGame(w)
        \/ VoidCheck(w)
        \/ ResumeCheck(w)
        \/ ResolveSet(w)
        \/ WalletRead(w)
        \/ WalletTx(w)

SpecSeq == Init /\ [][NextSeq]_vars

\* States DisableAllGaming, DisableGame and DisablePlayer leave the access control in.
ControlStates ==
    [gamingEnabled : BOOLEAN, disabledGames : {{}, {"fortune-slots"}}]

PlayerStates ==
    {[p \in Players |-> IF p = "p1" THEN st ELSE "active"] : st \in {"active", "suspended"}}

\* The engine behind an access control in any of its states.
InitControlled ==
    /\ InitEngine
    /\ control \in ControlStates
    /\ players \in PlayerStates
    /\ limits = Unlimited
    /\ audit = AuditUp

SpecControlled == InitControlled /\ [][Next]_vars

\* A daily or a weekly wager limit below the wager of a play, in force or not yet.
WagerLimits == {400}

LimitStates ==
    {[p \in Players |-> IF p = "p1" THEN l ELSE EmptyLimits] :
        l \in [dailyWager : WagerLimits \cup {NoLimit},
               weeklyWager : WagerLimits \cup {NoLimit}, effective : BOOLEAN]}

\* The engine with wager limits set for the player.
InitLimited ==
    /\ InitEngine
    /\ control = GamingOn
    /\ players = AllActive
    /\ limits \in LimitStates
    /\ audit = AuditUp

SpecLimited == InitLimited /\ [][Next]_vars

\* The engine with the audit store up or down.
InitAudited ==
    /\ InitEngine
    /\ control = GamingOn
    /\ players = AllActive
    /\ limits = Unlimited
    /\ audit \in [down : BOOLEAN]

\* The engine's requests and, beside them, deposits and withdrawals.
NextAudited ==
    \/ Next
    \/ \E w \in Procs : Deposit(w) \/ Withdraw(w)

SpecAudited == InitAudited /\ [][NextAudited]_vars

\* ------------------------------------------------------------------ two players

\* Each player has an active session on fortune-slots and no cycle is held.
InitPlayers ==
    /\ \E b \in {o \in Openings : o.bonus > 0} : balances = [p \in Players |-> b]
    /\ opening = balances
    /\ transactions = <<>>
    /\ sessions = <<OpenSession("p1", "fortune-slots", Available(balances["p1"])),
                   OpenSession("p2", "fortune-slots", Available(balances["p2"]))>>
    /\ cycles = <<>>
    /\ proc = [w \in Procs |-> Idle]
    /\ calls = [plays |-> 0, others |-> 0]
    /\ faults = 0
    /\ resolved = <<>>
    /\ control = GamingOn
    /\ players = AllActive
    /\ limits = Unlimited
    /\ calc = NoCalc
    /\ rng = RngIdle
    /\ server = Serving
    /\ limitsvc = LimitsRest
    /\ rngShared = SharedRest
    /\ audit = AuditUp

\* The request worker w accepts in this step stakes or moves 500: an amount every
\* opening balance covers.
Funded(w) == proc'[w].wager \in {0, 500} /\ proc'[w].amount \in {0, 500}

\* The wallet call worker w accepts in this step is for the second player.
Second(w) == Funded(w) /\ proc'[w].player = "p2"

\* Play and the four wallet methods, called for either player while calls for the other
\* are under way.
NextPlayers ==
    \E w \in Procs :
        \/ Play(w) /\ Funded(w)
        \/ PlayGetSession(w)
        \/ PlayGetBalance(w)
        \/ PlayGenerate(w)
        \/ PlayGetNewBalance(w)
        \/ PlayInsertCycle(w)
        \/ PlayUpdateSession(w)
        \/ Deposit(w) /\ Second(w)
        \/ Withdraw(w) /\ Second(w)
        \/ PlaceWager(w) /\ Second(w)
        \/ CreditWin(w) /\ Second(w)
        \/ WalletRead(w)
        \/ WalletTx(w)

SpecPlayers == InitPlayers /\ [][NextPlayers]_vars

\* ------------------------------------------------------------------ the libraries alone

\* No player, no session, no request: the database and the workers are left alone.
NoEngine ==
    /\ balances = [p \in Players |-> NoBal]
    /\ opening = balances
    /\ transactions = <<>>
    /\ sessions = <<>>
    /\ cycles = <<>>
    /\ proc = [w \in Procs |-> Idle]
    /\ calls = [plays |-> 0, others |-> 0]
    /\ faults = 0
    /\ resolved = <<>>
    /\ control = GamingOn
    /\ players = AllActive
    /\ limits = Unlimited

engine == <<balances, transactions, sessions, cycles, proc, calls, faults, opening, resolved,
            control, players, limits>>

\* Two Money values are about to be combined.
InitMoney ==
    /\ NoEngine
    /\ rng = RngIdle
    /\ server = Serving
    /\ limitsvc = LimitsRest
    /\ rngShared = SharedRest
    /\ audit = AuditUp
    /\ calc \in [fn : {"args"}, m : Monies, other : Monies]

\* result := m.Add(other): the method has one result, a Money; it has no error result.
MoneyAdd ==
    /\ calc.fn = "args"
    /\ calc' = [fn |-> "Add", m |-> calc.m, other |-> calc.other,
                out |-> Add(calc.m, calc.other), err |-> "nil"]
    /\ UNCHANGED <<engine, rng, server, limitsvc, audit, rngShared>>

\* result := m.Sub(other)
MoneySub ==
    /\ calc.fn = "args"
    /\ calc' = [fn |-> "Sub", m |-> calc.m, other |-> calc.other,
                out |-> Sub(calc.m, calc.other), err |-> "nil"]
    /\ UNCHANGED <<engine, rng, server, limitsvc, audit, rngShared>>

NextMoney == MoneyAdd \/ MoneySub

SpecMoney == InitMoney /\ [][NextMoney]_vars

\* The random number service, one call from construction.
InitRng ==
    /\ NoEngine
    /\ calc = NoCalc
    /\ rng = RngIdle
    /\ server = Serving
    /\ limitsvc = LimitsRest
    /\ rngShared = SharedRest
    /\ audit = AuditUp

\* GenerateInt(max) is called.
GenerateInt ==
    \E max \in MinInt .. MaxInt :
        /\ rng.pc = "idle"
        /\ rng' = CallGenerateInt([rng EXCEPT !.fn = "GenerateInt", !.max = max], max)
        /\ UNCHANGED <<engine, calc, server, limitsvc, audit, rngShared>>

\* GenerateIntRange(min, max) is called: rangeSize := max - min + 1 in int64.
GenerateIntRange ==
    \E lo \in MinInt .. MaxInt, hi \in MinInt .. MaxInt :
        /\ rng.pc = "idle"
        /\ rng' = LET r == [rng EXCEPT !.fn = "GenerateIntRange", !.lo = lo, !.hi = hi]
                  IN  IF lo > hi THEN RngDone(r, 0, "ErrInvalidRange")
                      ELSE CallGenerateInt(r, Wrap(hi - lo + 1))
        /\ UNCHANGED <<engine, calc, server, limitsvc, audit, rngShared>>

\* Shuffle(slice) is called: i := len(slice) - 1.
Shuffle ==
    \E len \in 0 .. MaxLen :
        \E slice \in [1 .. len -> 1 .. MaxLen] :
            /\ rng.pc = "idle"
            /\ rng' = LET r == [rng EXCEPT !.fn = "Shuffle", !.input = slice,
                                           !.slice = slice, !.i = len - 1]
                      IN  IF r.i > 0 THEN CallGenerateInt(r, r.i + 1)
                          ELSE RngDone(r, 0, "nil")
            /\ UNCHANGED <<engine, calc, server, limitsvc, audit, rngShared>>

\* SelectWeighted(weights) is called: the checks, the total, and GenerateFloat's call
\* of GenerateInt.
SelectWeighted ==
    \E len \in 0 .. MaxLen :
        \E weights \in [1 .. len -> Weights] :
            /\ rng.pc = "idle"
            /\ rng' = LET r == [rng EXCEPT !.fn = "SelectWeighted", !.weights = weights]
                      IN  IF CheckWeights(weights) # "nil"
                          THEN RngDone(r, 0, CheckWeights(weights))
                          ELSE CallGenerateInt(
                                  [r EXCEPT !.total = Cumulative(weights, len)], Precision)
            /\ UNCHANGED <<engine, calc, server, limitsvc, audit, rngShared>>

\* One turn of GenerateInt's loop: eight bytes are read from the entropy source, which
\* may fail; a draw below the threshold is counted and returned modulo max, any other
\* is dropped and the loop goes round.
Draw ==
    /\ rng.pc = "draw"
    /\ \/ rng' = RngReturn([rng EXCEPT !.read = TRUE], 0, "ErrEntropy")
       \/ \E n \in DrawValues :
            LET r == [rng EXCEPT !.read = TRUE, !.n = n]
            IN  rng' = IF n < r.threshold
                       THEN RngReturn([r EXCEPT !.samples = @ + 1], n % r.max, "nil")
                       ELSE r
    /\ UNCHANGED <<engine, calc, server, limitsvc, audit, rngShared>>

\* HealthCheck() is called.
HealthCheck ==
    /\ rng.pc = "idle"
    /\ rng' = CallHealthCheck(rng)
    /\ UNCHANGED <<engine, calc, server, limitsvc, audit, rngShared>>

NextRng ==
    GenerateInt \/ GenerateIntRange \/ Shuffle \/ SelectWeighted \/ HealthCheck \/ Draw

SpecRng == InitRng /\ [][NextRng]_vars

\* ------------------------------------------------------------------ the server

InitServer ==
    /\ NoEngine
    /\ calc = NoCalc
    /\ rng = RngIdle
    /\ server = ServerStart
    /\ limitsvc = LimitsRest
    /\ rngShared = SharedRest
    /\ audit = AuditUp

\* What the self-test that has returned found.
CheckResult == IF rng.err = "nil" /\ rng.healthy THEN "passed" ELSE "failed"

\* main: rngSvc := rng.New(); rngSvc.HealthCheck()
Startup ==
    /\ server.phase = "starting"
    /\ rng' = CallHealthCheck(rng)
    /\ server' = [server EXCEPT !.phase = "selftest"]
    /\ UNCHANGED <<engine, calc, limitsvc, audit, rngShared>>

\* main: if err != nil || !rngHealth.Healthy { log.Fatalf(...) }; otherwise the
\* services are built and the server listens.
StartupDecide ==
    /\ server.phase = "selftest" /\ rng.pc = "done"
    /\ server' = [server EXCEPT !.lastCheck = CheckResult,
                                !.phase = IF CheckResult = "passed" THEN "serving"
                                          ELSE "fatal"]
    /\ rng' = RngRest(rng)
    /\ UNCHANGED <<engine, calc, limitsvc, audit, rngShared>>

\* GET /health arrives: the handler calls HealthCheck.
HealthRequest ==
    /\ server.phase = "serving" /\ server.handler = "idle" /\ rng.pc = "idle"
    /\ server.requests < MaxCalls
    /\ rng' = CallHealthCheck(rng)
    /\ server' = [server EXCEPT !.handler = "health", !.requests = @ + 1]
    /\ UNCHANGED <<engine, calc, limitsvc, audit, rngShared>>

\* rngHealth, _ := h.rng.HealthCheck(); respondJSON(w, 200, {"status": "healthy",
\* "rng_status": rngHealth}): the handler goes on whatever the self-test returned.
HealthRespond ==
    /\ server.handler = "health" /\ rng.pc = "done"
    /\ server' = [server EXCEPT !.handler = "idle", !.lastCheck = CheckResult,
                                !.response = [code |-> 200, status |-> "healthy",
                                              rngHealthy |-> rng.healthy]]
    /\ rng' = RngRest(rng)
    /\ UNCHANGED <<engine, calc, limitsvc, audit, rngShared>>

\* POST /games/play arrives and is handed to the engine.
ServePlay ==
    /\ server.phase = "serving"
    /\ server.plays < MaxCalls
    /\ server' = [server EXCEPT !.plays = @ + 1]
    /\ UNCHANGED <<engine, calc, rng, limitsvc, audit, rngShared>>

\* One turn of GenerateInt's loop inside a self-test of the server.
ServerDraw ==
    /\ Draw
    /\ UNCHANGED server

NextServer ==
    Startup \/ StartupDecide \/ HealthRequest \/ HealthRespond \/ ServePlay \/ ServerDraw

SpecServer == InitServer /\ [][NextServer]_vars

\* ------------------------------------------------------------------ the reel evaluator alone

\* The positions GenerateInt(len(reel)) can return for the three reels.
Positions ==
    {<<a, b, c>> : a \in 0 .. Len(fortuneSlotsReels[1]) - 1,
                   b \in 0 .. Len(fortuneSlotsReels[2]) - 1,
                   c \in 0 .. Len(fortuneSlotsReels[3]) - 1}

\* Wagers in minor units: one that scales every payout to a whole amount and two that
\* do not.
Stakes == {5, 33, 500}

InitReels ==
    /\ NoEngine
    /\ rng = RngIdle
    /\ server = Serving
    /\ limitsvc = LimitsRest
    /\ rngShared = SharedRest
    /\ audit = AuditUp
    /\ calc \in [fn : {"args"}, idx : Positions, wager : Stakes]

\* generateSlotOutcome with the three positions drawn: the symbols are read off the
\* reels, evaluateWins gives the win lines and IsWin is set from them.
generateSlotOutcome ==
    /\ calc.fn = "args"
    /\ calc' = [fn |-> "generateSlotOutcome", idx |-> calc.idx, wager |-> calc.wager,
                outcome |-> SlotOutcome(calc.idx)]
    /\ UNCHANGED <<engine, rng, server, limitsvc, audit, rngShared>>

\* calculateWin(outcome, wager)
calculateWinCall ==
    /\ calc.fn = "generateSlotOutcome"
    /\ calc' = [fn |-> "calculateWin", idx |-> calc.idx, wager |-> calc.wager,
                outcome |-> calc.outcome,
                win |-> calculateWin(calc.outcome, calc.wager)]
    /\ UNCHANGED <<engine, rng, server, limitsvc, audit, rngShared>>

NextReels == generateSlotOutcome \/ calculateWinCall

SpecReels == InitReels /\ [][NextReels]_vars

\* ------------------------------------------------------------------ the limits service

\* The limits a request may carry (0 removes the limit, a negative one is invalid).
LimitAmounts == {-1, 0, 50, 100}

\* The periods requests name here; the other columns stay unset.
Periods == {"daily"}

\* The amounts checked against the limits.
CheckAmounts == {80, 120}

InitLimits ==
    /\ NoEngine
    /\ calc = NoCalc
    /\ rng = RngIdle
    /\ server = Serving
    /\ limitsvc = LimitsRest
    /\ rngShared = SharedRest
    /\ audit = AuditUp

\* What a setter leaves pending for its column: when the limit the checks enforce at
\* the time of the call is raised or removed, that limit is held until the cooling-off
\* period is over; any other change of the column holds nothing.
Hold(svc, type, amount) ==
    LET cur == svc.row.cols[type]
    IN  IF svc.row.exists /\ svc.row.effectiveAt < svc.now /\ cur # NoLimit
           /\ (amount > cur \/ amount = 0)
        THEN [prev |-> cur, until |-> svc.now + CoolingOffPeriod]
        ELSE NothingHeld

\* SetDepositLimit, SetWagerLimit and SetLossLimit differ in the column only: the
\* request is validated, the current limits are read, effectiveAt is computed and the
\* row is upserted.  A call takes one unit of the clock.
SetLimit(fn, kind) ==
    \E period \in Periods, amount \in LimitAmounts :
        LET type == period \o "_" \o kind
            svc  == limitsvc
            eff  == EffectiveAt(CurrentAmount(svc.row, type), amount, svc.now)
        IN  /\ svc.now < MaxTime
            /\ limitsvc' =
                  IF amount < 0
                  THEN [svc EXCEPT !.now = @ + 1,
                           !.last = [fn |-> fn, type |-> type, amount |-> amount,
                                     at |-> svc.now, res |-> "ErrInvalidLimit"]]
                  ELSE [svc EXCEPT !.now = @ + 1,
                           !.row = upsertLimit(svc.row, type, amount, eff),
                           !.held[type] = Hold(svc, type, amount),
                           !.last = [fn |-> fn, type |-> type, amount |-> amount,
                                     at |-> svc.now, res |-> "ok"]]
            /\ UNCHANGED <<engine, calc, rng, server, audit, rngShared>>

SetDepositLimit == SetLimit("SetDepositLimit", "deposit")

SetWagerLimit == SetLimit("SetWagerLimit", "wager")

SetLossLimit == SetLimit("SetLossLimit", "loss")

\* CheckDepositLimit(player, amount)
CheckDepositLimitCall ==
    \E amount \in CheckAmounts :
        LET svc == limitsvc
            lim == [p \in Players |-> GetLimits(svc.row, svc.now)]
        IN  /\ svc.now < MaxTime
            /\ limitsvc' = [svc EXCEPT !.now = @ + 1,
                  !.last = [fn |-> "CheckDepositLimit", type |-> "daily_deposit",
                            amount |-> amount, at |-> svc.now,
                            res |-> CheckDepositLimit(lim, transactions, "p1", amount)]]
            /\ UNCHANGED <<engine, calc, rng, server, audit, rngShared>>

\* CheckWagerLimit(player, amount)
CheckWagerLimitCall ==
    \E amount \in CheckAmounts :
        LET svc == limitsvc
            lim == [p \in Players |-> GetLimits(svc.row, svc.now)]
        IN  /\ svc.now < MaxTime
            /\ limitsvc' = [svc EXCEPT !.now = @ + 1,
                  !.last = [fn |-> "CheckWagerLimit", type |-> "daily_wager",
                            amount |-> amount, at |-> svc.now,
                            res |-> CheckWagerLimit(lim, transactions, "p1", amount)]]
            /\ UNCHANGED <<engine, calc, rng, server, audit, rngShared>>

\* Time passes between two calls.
Tick ==
    /\ limitsvc.now < MaxTime
    /\ limitsvc' = [limitsvc EXCEPT !.now = @ + 1]
    /\ UNCHANGED <<engine, calc, rng, server, audit, rngShared>>

NextLimits ==
    SetDepositLimit \/ SetWagerLimit \/ SetLossLimit \/ CheckDepositLimitCall
        \/ CheckWagerLimitCall \/ Tick

SpecLimits == InitLimits /\ [][NextLimits]_vars

\* ------------------------------------------------------------------ the service shared

InitShared ==
    /\ NoEngine
    /\ calc = NoCalc
    /\ rng = RngIdle
    /\ server = Serving
    /\ limitsvc = LimitsRest
    /\ audit = AuditUp
    /\ rngShared = SharedRest

\* The other parts of the model, which a step of a goroutine leaves alone.
others == <<engine, calc, rng, server, limitsvc, audit>>

\* Goroutine t calls GenerateBytes(n), GenerateInt(max) or HealthCheck(): GenerateInt
\* returns at once when max is not positive; all three then ask for the mutex.
SharedCall(t) ==
    \E fn \in {"GenerateBytes", "GenerateInt", "HealthCheck"}, max \in {0, Bins} :
        /\ rngShared.g[t].pc = "idle"
        /\ fn # "GenerateInt" => max = Bins
        /\ rngShared' = [rngShared EXCEPT !.g[t] =
              IF max <= 0
              THEN [NoGoroutine EXCEPT !.fn = fn, !.pc = "done", !.err = "max must be positive"]
              ELSE [NoGoroutine EXCEPT !.fn = fn,
                                       !.pc = IF fn = "HealthCheck" THEN "hc_lock" ELSE "lock"]]
        /\ UNCHANGED others

\* s.mu.Lock() returns: the mutex was free.
SharedLock(t) ==
    LET gt == rngShared.g[t]
    IN  /\ gt.pc \in {"lock", "hc_lock"}
        /\ rngShared.mu = 0
        /\ rngShared' = [rngShared EXCEPT !.mu = t,
              !.g[t].pc = IF gt.pc = "lock" THEN "read" ELSE "hc_stamp"]
        /\ UNCHANGED others

\* HealthCheck: s.lastHealthCheck = time.Now(); s.mu.Unlock(); then the first sample
\* is asked for.
SharedStamp(t) ==
    /\ rngShared.g[t].pc = "hc_stamp"
    /\ rngShared' = [rngShared EXCEPT !.lastHealthCheck = @ + 1, !.mu = 0,
          !.g[t].pc = "lock", !.g[t].inner = TRUE, !.g[t].i = 0]
    /\ UNCHANGED others

\* Where a goroutine is after GenerateBytes or GenerateInt returned err to it: back in
\* HealthCheck's loop, or at the caller.
SharedReturn(gt, err) ==
    IF ~gt.inner THEN [gt EXCEPT !.pc = "done", !.err = err]
    ELSE IF err # "nil" THEN [gt EXCEPT !.pc = "done", !.err = err]
    ELSE IF gt.i + 1 < SampleSize THEN [gt EXCEPT !.pc = "lock", !.i = @ + 1]
    ELSE [gt EXCEPT !.pc = "readsamples", !.i = @ + 1]

\* io.ReadFull(s.entropy, buf) under the mutex: it fails and the method returns the
\* error (the deferred Unlock runs); or GenerateInt rejects the value and reads again;
\* or the value is accepted and samplesGenerated is incremented.
SharedRead(t) ==
    LET gt == rngShared.g[t]
    IN  /\ gt.pc = "read"
        /\ \E outcome \in {"error", "rejected", "accepted"} :
             /\ outcome = "rejected" => gt.fn # "GenerateBytes"
             /\ rngShared' =
                   CASE outcome = "error" ->
                          [rngShared EXCEPT !.mu = 0,
                                            !.g[t] = SharedReturn(gt, "entropy error")]
                     [] outcome = "rejected" -> rngShared
                     [] outcome = "accepted" ->
                          [rngShared EXCEPT !.samplesGenerated = @ + 1, !.drawn = @ + 1,
                                            !.g[t].pc = "unlock"]
        /\ UNCHANGED others

\* The deferred s.mu.Unlock() of a successful draw, and the return.
SharedUnlock(t) ==
    /\ rngShared.g[t].pc = "unlock"
    /\ rngShared' = [rngShared EXCEPT !.mu = 0,
                                      !.g[t] = SharedReturn(rngShared.g[t], "nil")]
    /\ UNCHANGED others

\* HealthCheck builds its result: SamplesGenerated: s.samplesGenerated is read without
\* the mutex.  While another goroutine is inside the mutex the read races with its
\* increment and gives the value before or after it.
SharedReadSamples(t) ==
    /\ rngShared.g[t].pc = "readsamples"
    /\ \E v \in {rngShared.samplesGenerated, rngShared.samplesGenerated + 1} :
          /\ v # rngShared.samplesGenerated =>
                \E u \in Goroutines : u # t /\ rngShared.g[u].pc = "read"
          /\ rngShared' = [rngShared EXCEPT !.g[t].pc = "done", !.g[t].seen = v]
    /\ UNCHANGED others

NextShared ==
    \E t \in Goroutines :
        \/ SharedCall(t)
        \/ SharedLock(t)
        \/ SharedStamp(t)
        \/ SharedRead(t)
        \/ SharedUnlock(t)
        \/ SharedReadSamples(t)

SpecShared == InitShared /\ [][NextShared]_vars

\* ------------------------------------------------------------------ properties of the ledger

\* The signed effect of a Transaction row on the real-money balance.
Signed(row) == IF row.type \in {"deposit", "win"} THEN row.amount ELSE 0 - row.amount

\* The algebraic sum of the amounts of a player's committed rows.
RECURSIVE LedgerSum(_, _)
LedgerSum(log, p) ==
    IF log = <<>> THEN 0
    ELSE (IF Head(log).player = p THEN Signed(Head(log)) ELSE 0) + LedgerSum(Tail(log), p)

RowsOf(p, kind, ref) ==
    {i \in DOMAIN transactions :
        /\ transactions[i].player = p
        /\ transactions[i].type = kind
        /\ transactions[i].ref = ref}

\* Worker w's call returns in this step.
Returns(w) == proc[w].pc # "done" /\ proc'[w].pc = "done"

\* C1: no lost update -- once every call has returned, each player's real-money balance
\* is the opening balance plus the algebraic sum of the amounts of the calls that
\* succeeded (each of which committed one row).
C1_NoLostUpdate ==
    Quiescent =>
        \A p \in Players :
            balances[p].real = opening[p].real + LedgerSum(transactions, p)

\* C2: in every reachable state a player's RealMoney is >= 0.
C2_RealMoneyNonNegative == \A p \in Players : balances[p].real >= 0

\* C3: a step that changes a stored balance or the transaction log commits exactly one
\* new row, the row satisfies balance_after = balance_before +/- amount by its type, and
\* the only balance written is its player's, set to the row's balance_after.
C3_OneRowPerBalanceChange ==
    [][ (balances' # balances \/ transactions' # transactions) =>
            LET n   == Len(transactions')
                row == transactions'[n]
            IN  /\ n = Len(transactions) + 1
                /\ SubSeq(transactions', 1, n - 1) = transactions
                /\ row.after = row.before + Signed(row)
                /\ balances' = [balances EXCEPT ![row.player].real = row.after] ]_vars

\* A wager row and a deposit row have been committed.
C3_Witness ==
    /\ \E i \in DOMAIN transactions :
          /\ transactions[i].type = "wager"
          /\ transactions[i].after = transactions[i].before - transactions[i].amount
    /\ \E i \in DOMAIN transactions : transactions[i].type = "deposit"

\* C4: a ledger call that returns an error -- from the amount check, the balance read,
\* the funds check, or the begin, update, insert or commit of its database transaction --
\* has changed neither a balance nor the log: no step of it before the return writes,
\* and the step that returns the error leaves both as they were.
C4_FailureChangesNothing ==
    [][ \A w \in Procs :
            /\ (proc[w].wpc = "read" /\ proc'[w] # proc[w]) =>
                    UNCHANGED <<balances, transactions>>
            /\ (proc[w].op \in WalletOps /\ Returns(w) /\ proc'[w].res # "ok") =>
                    UNCHANGED <<balances, transactions>> ]_vars

\* One call failed on the storage and another for lack of funds, and nothing was written.
C4_Witness ==
    /\ \E w \in Procs : proc[w].op \in WalletOps /\ proc[w].pc = "done" /\ proc[w].res = "DbError"
    /\ \E w \in Procs : proc[w].pc = "done" /\ proc[w].res = "ErrInsufficientFunds"
    /\ transactions = <<>>
    /\ balances = opening

\* C5: for one player and one cycle id at most one wager row and at most one win row is
\* ever committed, however often PlaceWager or CreditWin is called with that cycle id.
C5_AppliedOncePerCycle ==
    \A p \in Players, kind \in {"wager", "win"}, ref \in ExtRefs :
        Cardinality(RowsOf(p, kind, ref)) <= 1

\* ------------------------------------------------------------------ properties of the engine

\* The status changes the lifecycle of a cycle permits.
Transitions ==
    { <<"pending", "in_progress">>, <<"in_progress", "completed">>,
      <<"in_progress", "interrupted">>, <<"interrupted", "voided">>,
      <<"interrupted", "completed">> }

Terminal == {"completed", "voided"}

\* The committed win rows that carry cycle c as their reference.
WinRows(log, c) == {i \in DOMAIN log : log[i].type = "win" /\ log[i].ref = c}

\* Worker w, running op, makes its status check in this step.
Checks(w, op) == proc[w].op = op /\ proc[w].pc = "check" /\ proc'[w] # proc[w]

\* Worker w takes a MarkInterrupted request in this step.
Marks(w) == Accepts(w) /\ calls' # calls /\ proc'[w].op = "MarkInterrupted"

\* The call of worker w returns res in this step and nothing stored changes.
Refused(w, res) ==
    /\ proc'[w].pc = "done" /\ proc'[w].res = res
    /\ UNCHANGED <<balances, transactions, cycles>>

\* The win the outcome stored in a cycle row pays on the cycle's wager.
StoredWin(row) == IF row.outcome.isWin THEN TotalPayout(row.outcome.winLines, row.wager) ELSE 0

C10_WagerRefunded ==
    \A w \in Procs :
        (proc[w].op = "Play" /\ proc[w].pc = "done" /\ proc[w].res = "ErrOutcome") =>
            \E i \in WinRows(transactions, proc[w].cycle) :
                /\ transactions[i].player = proc[w].player
                /\ transactions[i].amount = proc[w].wager

\* The committed wager rows that carry cycle c as their reference.
WagerRows(log, c) == {i \in DOMAIN log : log[i].type = "wager" /\ log[i].ref = c}

\* C11: when Play has returned the outcome-generation failure, its cycle is stored in
\* status interrupted (from where VoidGame can refund the wager and void it).
C11_OutcomeFailureInterrupts ==
    \A w \in Procs :
        (proc[w].op = "Play" /\ proc[w].pc = "done" /\ proc[w].res = "ErrOutcome") =>
            /\ proc[w].cycle \in DOMAIN cycles
            /\ cycles[proc[w].cycle].status = "interrupted"

\* C12: once Play has returned after an outcome was generated, whatever its result, a
\* wager it debited is not dropped: the cycle id of its wager row names a stored cycle
\* row, or a credit was committed for that cycle id.
C12_WagerNeverDropped ==
    \A w \in Procs :
        ( /\ proc[w].op = "Play" /\ proc[w].pc = "done" /\ proc[w].res # "ErrOutcome"
          /\ WagerRows(transactions, proc[w].cycle) # {} ) =>
            \/ proc[w].cycle \in DOMAIN cycles
            \/ WinRows(transactions, proc[w].cycle) # {}

\* Worker w, running Play at step pc, takes that step in this one and no storage fault
\* is injected.
PlayStep(w, pc) ==
    /\ proc[w].op = "Play" /\ proc[w].pc = pc
    /\ proc'[w] # proc[w]
    /\ faults' = faults

\* C13: when Play reads an available balance smaller than its (valid) wager it returns
\* ErrInsufficientBalance, and that step changes no balance, transaction, cycle or
\* session; a Play that returned this error has committed no row for its cycle id and
\* stored no cycle.
C13_InsufficientBalance ==
    [][ \A w \in Procs :
            LET pr == proc[w]
            IN  /\ (PlayStep(w, "getbalance")
                        /\ Available(balances[pr.player]) < pr.wager) =>
                        /\ proc'[w].pc = "done"
                        /\ proc'[w].res = "ErrInsufficientBalance"
                        /\ UNCHANGED <<balances, transactions, cycles, sessions>>
                /\ (proc'[w].op = "Play" /\ proc'[w].res = "ErrInsufficientBalance") =>
                        /\ WagerRows(transactions', proc'[w].cycle) = {}
                        /\ WinRows(transactions', proc'[w].cycle) = {}
                        /\ proc'[w].cycle \notin DOMAIN cycles' ]_vars

\* A Play with a wager of 1000 on a balance of 510 was refused; nothing was written.
C13_Witness ==
    \E w \in Procs :
        /\ proc[w].op = "Play" /\ proc[w].pc = "done"
        /\ proc[w].res = "ErrInsufficientBalance"
        /\ proc[w].wager > Available(balances[proc[w].player])
        /\ balances = opening
        /\ transactions = <<>>
        /\ sessions[1].played = 0 /\ sessions[1].wagered = 0

\* C14: a Play that has got beyond its checks carries a wager between MinBet and MaxBet
\* of its session's game; a wager outside these limits, on an active session of an
\* enabled game, is answered with ErrInvalidWager in the step that loads the session,
\* which changes nothing, before any ledger call.
C14_WagerLimits ==
    [][ \A w \in Procs :
            LET pr == proc[w]
                g  == Games[sessions[pr.session].game]
            IN  /\ (proc'[w].op = "Play" /\ proc'[w].pc \notin {"getsession", "done"}) =>
                        LET g2 == Games[sessions'[proc'[w].session].game]
                        IN  g2.minBet <= proc'[w].wager /\ proc'[w].wager <= g2.maxBet
                /\ (PlayStep(w, "getsession")
                        /\ pr.session \in DOMAIN sessions
                        /\ sessions[pr.session].status = "active"
                        /\ (pr.wager < g.minBet \/ pr.wager > g.maxBet)) =>
                        /\ proc'[w].pc = "done"
                        /\ proc'[w].res = "ErrInvalidWager"
                        /\ proc[w].wpc = "-"
                        /\ UNCHANGED <<balances, transactions, cycles, sessions>> ]_vars

\* A Play with a wager above MaxBet was refused; nothing was written.
C14_Witness ==
    \E w \in Procs :
        /\ proc[w].op = "Play" /\ proc[w].pc = "done" /\ proc[w].res = "ErrInvalidWager"
        /\ proc[w].wager > Games["fortune-slots"].maxBet
        /\ balances = opening
        /\ transactions = <<>>
        /\ sessions[1].played = 0

\* C15: a Play that loads a session EndSession has completed returns ErrSessionNotActive
\* and that step changes no balance, transaction, cycle or session; no step takes a
\* session from completed to another status.
C15_CompletedSessionRefusesPlay ==
    [][ /\ \A w \in Procs :
              LET pr == proc[w]
              IN  (PlayStep(w, "getsession")
                      /\ pr.session \in DOMAIN sessions
                      /\ sessions[pr.session].status = "completed") =>
                      /\ proc'[w].pc = "done"
                      /\ proc'[w].res = "ErrSessionNotActive"
                      /\ WagerRows(transactions', proc'[w].cycle) = {}
                      /\ UNCHANGED <<balances, transactions, cycles, sessions>>
        /\ \A sid \in DOMAIN sessions :
              sessions[sid].status = "completed" =>
                  (sid \in DOMAIN sessions' /\ sessions'[sid].status = "completed") ]_vars

\* EndSession returned ok, the session is completed, and a Play on it was refused
\* with nothing written.
C15_Witness ==
    \E w, v \in Procs :
        /\ proc[w].op = "EndSession" /\ proc[w].pc = "done" /\ proc[w].res = "ok"
        /\ proc[v].op = "Play" /\ proc[v].pc = "done" /\ proc[v].res = "ErrSessionNotActive"
        /\ sessions[1].status = "completed"
        /\ transactions = <<>>
        /\ balances = opening

\* C16: with requests served one after the other, no step changes the balances between
\* the arrival of a Play and its balance read, so the balance it reads is the balance
\* before Play; and when Play returns ok, the balance it returns (the one it read last,
\* which is the player's balance) is that balance minus the wager plus the win, and the
\* cycle row stored under its id is completed, has balance_before that balance,
\* balance_after = balance_before - wager + win, and holds the outcome that was
\* generated, of which the win is the payout.
C16_SuccessfulPlay ==
    [][ \A w \in Procs :
            LET pr == proc[w]
            IN  /\ (pr.op = "Play" /\ pr.pc \in {"getsession", "getbalance"}) =>
                        balances' = balances
                /\ (pr.op = "Play" /\ pr.pc = "getbalance" /\ proc'[w].pc = "wager") =>
                        proc'[w].avail = Available(balances[pr.player])
                /\ (pr.op = "Play" /\ pr.pc # "done"
                        /\ proc'[w].pc = "done" /\ proc'[w].res = "ok") =>
                        /\ pr.newAvail = pr.avail - pr.wager + pr.win
                        /\ Available(balances'[pr.player]) = pr.newAvail
                        /\ pr.outcome \in {SlotOutcome(d) : d \in Draws}
                        /\ pr.win = calculateWin(pr.outcome, pr.wager)
                        /\ pr.cycle \in DOMAIN cycles'
                        /\ cycles'[pr.cycle] =
                              [session |-> pr.session, player |-> pr.player,
                               wager |-> pr.wager, win |-> pr.win, before |-> pr.avail,
                               after |-> pr.avail - pr.wager + pr.win,
                               outcome |-> pr.outcome, status |-> "completed"] ]_vars

\* A Play returned ok with a win; its cycle row is completed and balanced.
C16_Witness ==
    \E w \in Procs :
        /\ proc[w].op = "Play" /\ proc[w].pc = "done" /\ proc[w].res = "ok"
        /\ proc[w].win > 0 /\ proc[w].wager > 0
        /\ proc[w].cycle \in DOMAIN cycles
        /\ cycles[proc[w].cycle].status = "completed"
        /\ cycles[proc[w].cycle].win = proc[w].win
        /\ cycles[proc[w].cycle].after =
              cycles[proc[w].cycle].before - proc[w].wager + proc[w].win
        /\ Available(balances[proc[w].player]) = cycles[proc[w].cycle].after

\* The completed cycles of a session that Play stored (a cycle completed by ResumeGame
\* has a ResumeGame call that returned ok).
PlayedCycles(sid) ==
    {c \in DOMAIN cycles : /\ cycles[c].session = sid
                           /\ cycles[c].status = "completed"
                           /\ Count(resolved, c, "ok") = 0}

RECURSIVE SumWagers(_), SumWins(_)
SumWagers(S) ==
    IF S = {} THEN 0 ELSE LET c == CHOOSE x \in S : TRUE
                          IN  cycles[c].wager + SumWagers(S \ {c})

SumWins(S) ==
    IF S = {} THEN 0 ELSE LET c == CHOOSE x \in S : TRUE
                          IN  cycles[c].win + SumWins(S \ {c})

\* C17: whenever no request is running, each session's games_played is the number of
\* completed cycles Play stored for it, and its total_wagered and total_won are the
\* sums of their wager and win amounts.
C17_SessionTotals ==
    Quiescent =>
        \A sid \in DOMAIN sessions :
            /\ sessions[sid].played = Cardinality(PlayedCycles(sid))
            /\ sessions[sid].wagered = SumWagers(PlayedCycles(sid))
            /\ sessions[sid].won = SumWins(PlayedCycles(sid))

\* Worker w, running Play, takes a step that changes the ledger or the cycles.
PlayMutates(w) ==
    /\ proc[w].op = "Play" /\ proc[w].pc # "done"
    /\ proc'[w] # proc[w]
    /\ (balances' # balances \/ transactions' # transactions \/ cycles' # cycles)

\* C18: no step of Play changes a balance, commits a transaction or stores a cycle
\* while the access control refuses the player on the session's game (gaming disabled,
\* the game disabled, or the player's account not active).
C18_AccessChecked ==
    [][ \A w \in Procs :
            PlayMutates(w) =>
                CheckAccess(control, players, proc[w].player,
                            sessions[proc[w].session].game) = "ok" ]_vars

\* C19: no step of Play commits the wager debit when the wager, added to the wagers
\* the player has placed, exceeds a daily or weekly wager limit in force.
C19_WagerLimitChecked ==
    [][ \A w \in Procs :
            (PlayMutates(w) /\ proc[w].pc = "wager") =>
                CheckWagerLimit(limits, transactions, proc[w].player, proc[w].wager) = "ok"
      ]_vars

\* Worker w, running Withdraw at wallet step wpc, takes that step in this one and no
\* storage fault is injected.
WithdrawStep(w, wpc) ==
    /\ proc[w].op = "Withdraw" /\ proc[w].wpc = wpc
    /\ proc'[w] # proc[w]
    /\ faults' = faults

\* C20: a Withdraw with amount > 0 returns ErrInsufficientFunds, writing nothing,
\* exactly when the amount exceeds the RealMoney it reads (so an amount equal to the
\* balance is accepted, and every positive amount is refused on a balance of zero);
\* otherwise it goes on to its database transaction, which, on the balance it read,
\* commits RealMoney minus exactly the amount, not below zero, and returns ok.
C20_Withdraw ==
    [][ \A w \in Procs :
            LET pr == proc[w]
                p  == pr.player
            IN  /\ (WithdrawStep(w, "read") /\ pr.amount > 0) =>
                        /\ (proc'[w].res = "ErrInsufficientFunds")
                              <=> (pr.amount > balances[p].real)
                        /\ (proc'[w].wpc = "tx") <=> (pr.amount <= balances[p].real)
                        /\ UNCHANGED <<balances, transactions>>
                /\ (WithdrawStep(w, "tx") /\ pr.bal = balances[p]) =>
                        /\ balances' = [balances EXCEPT ![p].real = @ - pr.amount]
                        /\ balances'[p].real >= 0
                        /\ proc'[w].pc = "done" /\ proc'[w].res = "ok" ]_vars

\* A withdrawal of exactly the full balance was committed and left RealMoney at zero,
\* and a Withdraw of the same player was refused for insufficient funds.
C20_Witness ==
    \E w, v \in Procs :
        /\ proc[w].op = "Withdraw" /\ proc[w].pc = "done" /\ proc[w].res = "ok"
        /\ proc[v].op = "Withdraw" /\ proc[v].pc = "done"
        /\ proc[v].res = "ErrInsufficientFunds"
        /\ proc[v].player = proc[w].player
        /\ balances[proc[w].player].real = 0
        /\ Len(transactions) = 1
        /\ transactions[1].type = "withdrawal"
        /\ transactions[1].amount = opening[proc[w].player].real
        /\ transactions[1].player = proc[w].player
        /\ transactions[1].after = 0

\* Worker w, in a wallet call of the given kind at wallet step wpc, takes that step in
\* this one and no storage fault is injected.
LedgerStep(w, kind, wpc) ==
    /\ proc[w].kind = kind /\ proc[w].wpc = wpc
    /\ proc'[w] # proc[w]
    /\ faults' = faults

\* C21: CreditWin with amount zero returns without error and without a database
\* transaction, leaving balances and the transaction log unchanged; Deposit with amount
\* zero, and either of them with a negative amount, returns ErrInvalidAmount and changes
\* nothing; a positive CreditWin goes on to its database transaction, which, on the
\* balance it read, commits RealMoney plus exactly the amount and returns ok.
C21_ZeroAndNegativeAmounts ==
    [][ \A w \in Procs :
            LET pr == proc[w]
                p  == pr.player
            IN  /\ (LedgerStep(w, "win", "read") /\ pr.amount = 0) =>
                        /\ proc'[w].pc = "done" /\ proc'[w].res = "ok"
                        /\ UNCHANGED <<balances, transactions>>
                /\ (LedgerStep(w, "deposit", "read") /\ pr.amount = 0) =>
                        /\ proc'[w].pc = "done" /\ proc'[w].res = "ErrInvalidAmount"
                        /\ UNCHANGED <<balances, transactions>>
                /\ (pr.kind \in {"win", "deposit"} /\ pr.wpc = "read"
                        /\ proc'[w] # pr /\ pr.amount < 0) =>
                        /\ proc'[w].pc = "done" /\ proc'[w].res = "ErrInvalidAmount"
                        /\ UNCHANGED <<balances, transactions, faults>>
                /\ (LedgerStep(w, "win", "read") /\ pr.amount > 0) =>
                        /\ proc'[w].wpc = "tx"
                        /\ UNCHANGED <<balances, transactions>>
                /\ (LedgerStep(w, "win", "tx") /\ pr.bal = balances[p]) =>
                        /\ pr.amount > 0
                        /\ balances' = [balances EXCEPT ![p].real = @ + pr.amount]
                        /\ Len(transactions') = Len(transactions) + 1
                        /\ proc'[w].pc = "done" /\ proc'[w].res = "ok" ]_vars

\* A CreditWin returned ok and a Deposit returned ErrInvalidAmount while nothing was
\* written: the CreditWin was the no-op on amount zero.
C21_Witness ==
    \E w, v \in Procs :
        /\ proc[w].op = "CreditWin" /\ proc[w].pc = "done" /\ proc[w].res = "ok"
        /\ proc[v].op = "Deposit" /\ proc[v].pc = "done"
        /\ proc[v].res = "ErrInvalidAmount"
        /\ transactions = <<>>
        /\ balances = opening

C23_CurrencyMismatch ==
    (calc.fn \in {"Add", "Sub"} /\ calc.m.currency # calc.other.currency) =>
        calc.err = "ErrCurrencyMismatch"

\* The draws GenerateInt(max) accepts and returns as v.
Accepted(max, threshold, v) == {n \in DrawValues : n < threshold /\ n % max = v}

\* C24: GenerateInt has returned the range error exactly when max <= 0, and then
\* without a read of the entropy source. For max > 0 its threshold is the largest
\* multiple of max not above the largest draw; a draw it has read and not returned is
\* not below the threshold; the value it returns is the accepted draw modulo max, so
\* within [0, max); and every value of [0, max) has the same number of accepted draws.
C24_GenerateInt ==
    rng.fn = "GenerateInt" =>
        /\ (rng.pc = "done" /\ rng.err = "ErrInvalidRange") <=> (rng.max <= 0)
        /\ rng.max <= 0 => ~rng.read
        /\ rng.max > 0 =>
              /\ rng.threshold % rng.max = 0
              /\ rng.threshold <= MaxInt /\ rng.threshold + rng.max > MaxInt
              /\ (rng.pc = "draw" /\ rng.read) => rng.n >= rng.threshold
              /\ (rng.pc = "done" /\ rng.err = "nil") =>
                    /\ rng.n < rng.threshold
                    /\ rng.res = rng.n % rng.max
                    /\ 0 <= rng.res /\ rng.res < rng.max
              /\ \A v1, v2 \in 0 .. rng.max - 1 :
                    Cardinality(Accepted(rng.max, rng.threshold, v1)) =
                    Cardinality(Accepted(rng.max, rng.threshold, v2))

\* GenerateInt(3) has read the draw 5, which is below its threshold, and returned
\* 5 mod 3; the sample was counted.
C24_Witness ==
    /\ rng.fn = "GenerateInt" /\ rng.pc = "done" /\ rng.err = "nil"
    /\ rng.max = 3 /\ rng.n = 5 /\ rng.res = 2
    /\ rng.samples = 1

\* C25: GenerateIntRange has returned the range error exactly when lo > hi, and a value
\* it has returned lies in [lo, hi].
C25_GenerateIntRange ==
    rng.fn = "GenerateIntRange" =>
        /\ (rng.pc = "done" /\ rng.err = "ErrInvalidRange") <=> (rng.lo > rng.hi)
        /\ (rng.pc = "done" /\ rng.err = "nil") =>
              (rng.lo <= rng.res /\ rng.res <= rng.hi)

\* How often e occurs in a sequence.
Occurrences(seq, e) == Cardinality({k \in DOMAIN seq : seq[k] = e})

\* The draw sequences of a shuffle of n elements: the k-th draw, made at i = n - k,
\* lies in [0, i].
DrawSeqs(n) == {js \in [1 .. n - 1 -> 0 .. n - 1] : \A k \in 1 .. n - 1 : js[k] <= n - k}

\* The Fisher-Yates mapping: the order the draws js, from the k-th on, make of a slice.
RECURSIVE FisherYates(_, _, _)
FisherYates(slice, js, k) ==
    IF k > Len(js) THEN slice
    ELSE FisherYates(Swap(slice, Len(slice) - k, js[k]), js, k + 1)

\* The orders of a sequence.
Orders(seq) ==
    {[k \in DOMAIN seq |-> seq[f[k]]] :
        f \in {g \in [DOMAIN seq -> DOMAIN seq] : \A a, b \in DOMAIN seq : g[a] = g[b] => a = b}}

\* C26: at every point of a Shuffle, also when it has failed, the slice holds each
\* element as often as the input did; each draw made at position i lies in [0, i] and
\* the slice is what the Fisher-Yates mapping makes of the input with the draws made;
\* and when Shuffle has returned on an input of distinct elements, no other draw
\* sequence gives the order it left, and every order of the input is given by some
\* draw sequence.
C26_Shuffle ==
    rng.fn = "Shuffle" =>
        LET n == Len(rng.input)
        IN  /\ Len(rng.slice) = n
            /\ \A e \in 1 .. MaxLen : Occurrences(rng.slice, e) = Occurrences(rng.input, e)
            /\ \A k \in DOMAIN rng.draws : 0 <= rng.draws[k] /\ rng.draws[k] <= n - k
            /\ rng.slice = FisherYates(rng.input, rng.draws, 1)
            /\ (rng.pc = "done" /\ rng.err = "nil"
                    /\ \A a, b \in 1 .. n : rng.input[a] = rng.input[b] => a = b) =>
                  /\ rng.draws \in DrawSeqs(n)
                  /\ \A js \in DrawSeqs(n) :
                        FisherYates(rng.input, js, 1) = rng.slice => js = rng.draws
                  /\ \A o \in Orders(rng.input) :
                        \E js \in DrawSeqs(n) : FisherYates(rng.input, js, 1) = o

\* Shuffle has returned: two draws turned 1, 2, 3 into 3, 1, 2.
C26_Witness ==
    /\ rng.fn = "Shuffle" /\ rng.pc = "done" /\ rng.err = "nil"
    /\ rng.input = <<1, 2, 3>>
    /\ rng.slice = <<3, 1, 2>>
    /\ Len(rng.draws) = 2

\* C27: SelectWeighted has returned an error without a draw exactly for an empty list,
\* a list with a negative weight, or a list whose weights are all zero; otherwise the
\* index it returns is a valid one, its weight is not zero, and it is the first index
\* whose cumulative weight exceeds the scaled draw.
C27_SelectWeighted ==
    rng.fn = "SelectWeighted" =>
        LET ws == rng.weights
        IN  /\ (rng.pc = "done" /\ rng.err \notin {"nil", "ErrEntropy"}) <=>
                  \/ Len(ws) = 0
                  \/ \E k \in DOMAIN ws : ws[k] < 0
                  \/ \A k \in DOMAIN ws : ws[k] = 0
            /\ (rng.pc = "done" /\ rng.err = "nil") =>
                  /\ 0 <= rng.res /\ rng.res < Len(ws)
                  /\ ws[rng.res + 1] # 0
                  /\ Below(rng.n, rng.total, Cumulative(ws, rng.res + 1))
                  /\ \A i \in 0 .. rng.res - 1 :
                        ~Below(rng.n, rng.total, Cumulative(ws, i + 1))

\* C28: once a self-test has failed, at startup or on demand, the process is not
\* serving, takes no /health request further and has not answered with status healthy.
C28_SelfTestFatal ==
    server.lastCheck = "failed" =>
        /\ server.phase # "serving"
        /\ server.response.status # "healthy"

\* ------------------------------------------------------------------ properties of the evaluator

\* The number of wild symbols among the three.
Wilds(reels) == Cardinality({i \in 1 .. 3 : reels[i] = "WILD"})

\* The symbols among the three that are not wild.
NonWild(reels) == {reels[i] : i \in {j \in 1 .. 3 : reels[j] # "WILD"}}

\* The win lines the stated rules give: exact match, then three-of-a-kind with one or
\* two wilds standing for the one non-wild symbol, then CHERRY-CHERRY-*, then CHERRY-*-*.
StatedWinLines(reels) ==
    LET T == fortuneSlotsPaytable
        b == CHOOSE x \in NonWild(reels) : TRUE
    IN  IF reels \in DOMAIN T THEN <<WinLine(reels, 3, T[reels])>>
        ELSE IF Wilds(reels) \in {1, 2} /\ Cardinality(NonWild(reels)) = 1
                /\ <<b, b, b>> \in DOMAIN T
             THEN <<WinLine(reels, 3, T[<<b, b, b>>])>>
        ELSE IF reels[1] = "CHERRY" /\ reels[2] = "CHERRY"
             THEN <<WinLine(reels, 2, T[<<"CHERRY", "CHERRY", "*">>])>>
        ELSE IF reels[1] = "CHERRY"
             THEN <<WinLine(reels, 1, T[<<"CHERRY", "*", "*">>])>>
        ELSE <<>>

\* C29: an outcome has at most one win line, and it is the line of the first rule that
\* matches in the order exact match, wild-substituted three-of-a-kind (one or two wilds
\* and equal non-wild symbols), CHERRY-CHERRY-*, CHERRY-*-*.
C29_RulePriority ==
    calc.fn \in {"generateSlotOutcome", "calculateWin"} =>
        /\ Len(calc.outcome.winLines) <= 1
        /\ calc.outcome.winLines = StatedWinLines(calc.outcome.reels)

\* C30: the win is the paytable value times the wager divided by 100, truncated
\* (7-7-7 with a wager of 500 pays 25000); an outcome without a win line has IsWin
\* false and a win of zero.
C30_WinAmount ==
    calc.fn = "calculateWin" =>
        LET o == calc.outcome
        IN  /\ o.isWin = (o.winLines # <<>>)
            /\ o.winLines = <<>> => calc.win = 0
            /\ o.winLines # <<>> =>
                   /\ Len(o.winLines) = 1
                   /\ calc.win >= 0
                   /\ 100 * calc.win <= o.winLines[1].payout * calc.wager
                   /\ o.winLines[1].payout * calc.wager < 100 * calc.win + 100
            /\ (o.reels = <<"7", "7", "7">> /\ calc.wager = 500) => calc.win = 25000

\* calculateWin has paid 25000 on 7-7-7 with a wager of 500.
C30_Witness ==
    /\ calc.fn = "calculateWin"
    /\ calc.outcome.reels = <<"7", "7", "7">>
    /\ calc.outcome.winLines[1].payout = 5000
    /\ calc.wager = 500
    /\ calc.win = 25000

\* ------------------------------------------------------------------ properties, continued

\* C31: MarkInterrupted that succeeds moves its cycle from in_progress to interrupted
\* and the cycle is then listed by GetInterruptedGames for its player with the wager it
\* holds; once VoidGame or ResumeGame has returned success the cycle is listed for
\* nobody; and after every step the listing of a player is exactly that player's cycles
\* in status interrupted.
C31_InterruptedGames ==
    [][ /\ \A w \in Procs :
              LET c == proc'[w].cycle
              IN  /\ (Marks(w) /\ proc'[w].res = "ok") =>
                        /\ cycles[c].status = "in_progress"
                        /\ cycles'[c].status = "interrupted"
                        /\ [cycleID |-> c, wagerHeld |-> cycles[c].wager]
                               \in GetInterruptedGames(cycles', cycles[c].player)
                  /\ (Marks(w) /\ proc'[w].res # "ok") => UNCHANGED cycles
                  /\ (proc[w].op \in {"VoidGame", "ResumeGame"} /\ Returns(w)
                          /\ proc'[w].res = "ok") =>
                        \A p \in Players :
                            \A g \in GetInterruptedGames(cycles', p) : g.cycleID # c
        /\ \A p \in Players :
              /\ \A g \in GetInterruptedGames(cycles', p) :
                    /\ g.cycleID \in DOMAIN cycles'
                    /\ cycles'[g.cycleID].player = p
                    /\ cycles'[g.cycleID].status = "interrupted"
                    /\ g.wagerHeld = cycles'[g.cycleID].wager
              /\ \A c \in DOMAIN cycles' :
                    (cycles'[c].player = p /\ cycles'[c].status = "interrupted") =>
                        \E g \in GetInterruptedGames(cycles', p) : g.cycleID = c ]_vars

\* MarkInterrupted has succeeded on the held cycle, which is now the one game listed for
\* its player, with its wager of 500.
C31_Witness ==
    \E w \in Procs :
        /\ proc[w].op = "MarkInterrupted" /\ proc[w].pc = "done" /\ proc[w].res = "ok"
        /\ cycles[proc[w].cycle].status = "interrupted"
        /\ GetInterruptedGames(cycles, "p1") = {[cycleID |-> proc[w].cycle, wagerHeld |-> 500]}
        /\ GetInterruptedGames(cycles, "p2") = {}

\* C32: the outcome of a cycle row is never changed once stored; a row is stored by the
\* Play call that drew the outcome, with that outcome; a Play call never changes the
\* outcome it drew; and when Play returns success the stored outcome and the outcome
\* GetHistory gives for the cycle both encode to what Play returned.
C32_OutcomeStoredOnce ==
    [][ /\ \A c \in DOMAIN cycles :
              c \in DOMAIN cycles' /\ cycles'[c].outcome = cycles[c].outcome
        /\ \A c \in DOMAIN cycles' \ DOMAIN cycles :
              \E w \in Procs :
                  /\ proc[w].op = "Play" /\ proc[w].cycle = c
                  /\ proc[w].outcome # NoOutcome
                  /\ cycles'[c].outcome = proc[w].outcome
        /\ \A w \in Procs :
              LET c == proc[w].cycle
              IN  /\ (proc[w].op = "Play" /\ ~Free(w) /\ proc[w].outcome # NoOutcome) =>
                        proc'[w].outcome = proc[w].outcome
                  /\ (proc[w].op = "Play" /\ Returns(w) /\ proc'[w].res = "ok") =>
                        /\ c \in DOMAIN cycles'
                        /\ Marshal(cycles'[c].outcome) = Marshal(proc'[w].outcome)
                        /\ \E r \in GetHistory(cycles', cycles'[c].player) :
                              r.cycleID = c /\ r.outcome = Marshal(proc'[w].outcome) ]_vars

\* Play has returned the winning outcome 7-7-7, and the cycle row and the history hold it.
C32_Witness ==
    \E w \in Procs :
        /\ proc[w].op = "Play" /\ proc[w].pc = "done" /\ proc[w].res = "ok"
        /\ proc[w].outcome.reels = <<"7", "7", "7">>
        /\ proc[w].cycle \in DOMAIN cycles
        /\ cycles[proc[w].cycle].outcome = proc[w].outcome
        /\ \E r \in GetHistory(cycles, "p1") :
              r.cycleID = proc[w].cycle /\ ~r.outcome.win_lines.null

\* C33: while an increase or a removal of a limit is pending, that is until the
\* cooling-off period after the request is over, a check of that limit refuses exactly
\* the amounts that exceed the limit in force when the request was made, whatever other
\* limits were changed since.
C33_CoolingOff ==
    LET c == limitsvc.last
        h == limitsvc.held[c.type]
    IN  (c.fn \in {"CheckDepositLimit", "CheckWagerLimit"}
            /\ h.prev # NoLimit /\ c.at < h.until) =>
        (c.res # "ok") = (c.amount > h.prev)

\* C34: a call whose audit event could not be stored does not return success.
C34_AuditFailureSurfaced ==
    \A w \in Procs :
        (proc[w].pc = "done" /\ proc[w].log = "err") => proc[w].res # "ok"

\* The positions at which a goroutine reads entropy or reads or writes a counter of
\* the service.
Accessing == {"read", "unlock", "hc_stamp", "readsamples"}

\* C35: a goroutine reads entropy or touches samplesGenerated or lastHealthCheck only
\* while it holds the mutex, so at most one draw is under way; and samplesGenerated is
\* the number of successful draws.
C35_SingleMutex ==
    /\ \A t \in Goroutines : rngShared.g[t].pc \in Accessing => rngShared.mu = t
    /\ Cardinality({t \in Goroutines : rngShared.g[t].pc \in {"read", "unlock"}}) <= 1
    /\ rngShared.samplesGenerated = rngShared.drawn

\* C36: EndSession on a session that is already completed returns a state error, its
\* UPDATE step never returning without error, and leaves the session row as it was.
C36_EndCompletedSession ==
    [][\A w \in Procs :
          (/\ proc[w].op = "EndSession" /\ proc[w].pc = "endupdate"
           /\ proc'[w] # proc[w]
           /\ sessions[proc[w].session].status = "completed")
          => (proc'[w].res # "ok" /\ sessions' = sessions)]_vars

\* What the database holds for one player: the balance row, the Transaction rows in
\* commit order, the sessions and the cycles.
PlayerRows(bals, log, ss, cs, p) ==
    [balance |-> bals[p],
     transactions |-> SelectSeq(log, LAMBDA t : t.player = p),
     sessions |-> [i \in {j \in DOMAIN ss : ss[j].player = p} |-> ss[i]],
     cycles |-> [c \in {d \in DOMAIN cs : cs[d].player = p} |-> cs[c]]]

\* C37: every step of Deposit, Withdraw, PlaceWager, CreditWin and Play made for one
\* player leaves the balance, the transactions, the sessions and the cycles of every
\* other player as they were, whatever the calls for the other players are doing; a
\* Play that has not loaded its session yet changes no player's rows.
C37_PlayersIndependent ==
    [][\A w \in Procs :
          (proc'[w] # proc[w] /\ proc'[w].op \in WalletOps \cup {"Play"}) =>
          \A b \in Players \ {proc'[w].player} :
              PlayerRows(balances', transactions', sessions', cycles', b) =
              PlayerRows(balances, transactions, sessions, cycles, b)]_vars

\* A Play on the session of one player has returned its result, with its wager and its
\* cycle stored, while a deposit of 500 for the other player was committed: that player
\* holds the opening balance and the deposit, and none of the cycles.
C37_Witness ==
    \E w \in Procs, a \in Players, b \in Players :
        /\ a # b
        /\ proc[w].op = "Play" /\ proc[w].pc = "done" /\ proc[w].res = "ok"
        /\ proc[w].player = a
        /\ PlayerRows(balances, transactions, sessions, cycles, a).cycles # <<>>
        /\ Len(PlayerRows(balances, transactions, sessions, cycles, a).transactions) >= 1
        /\ \E i \in DOMAIN transactions :
              transactions[i].player = b /\ transactions[i].type = "deposit"
        /\ balances[b].real = opening[b].real + 500
        /\ DOMAIN PlayerRows(balances, transactions, sessions, cycles, b).cycles = {}

\* The Transaction rows of player p, in commit order.
LogOf(p) == SelectSeq(transactions, LAMBDA t : t.player = p)

\* C38: the transaction log of a player is an unbroken chain: in commit order the
\* balance_before of each Transaction is the balance_after of the one before it, and
\* the stored RealMoney is the balance_after of the last one.
C38_UnbrokenChain ==
    \A p \in Players :
        LET log == LogOf(p)
        IN  /\ \A i \in 1..(Len(log) - 1) : log[i + 1].before = log[i].after
            /\ log # <<>> => balances[p].real = log[Len(log)].after

\* This step commits a wager Transaction.
DebitsWager ==
    /\ Len(transactions') = Len(transactions) + 1
    /\ transactions'[Len(transactions')].type = "wager"

\* C39: once a session is completed no Play on it debits a wager or stores a cycle,
\* also when the session was completed by an EndSession that ran while the Play had
\* already passed its check of the session status.
C39_NoPlayAfterEnd ==
    [][\A w \in Procs :
          (/\ proc[w].op = "Play" /\ proc'[w] # proc[w]
           /\ proc[w].session \in DOMAIN sessions
           /\ sessions[proc[w].session].status = "completed")
          => (~DebitsWager /\ cycles' = cycles)]_vars

\* C40: the balance_before of a stored GameCycle is the balance its wager was debited
\* from: the balance_before of the cycle's wager Transaction plus the bonus balance,
\* whatever other wallet calls of the same player ran beside the Play.
C40_CycleBalanceBefore ==
    \A c \in DOMAIN cycles :
        \A i \in DOMAIN transactions :
            (/\ transactions[i].type = "wager"
             /\ transactions[i].ref = c
             /\ transactions[i].player = cycles[c].player)
            => cycles[c].before = transactions[i].before + balances[cycles[c].player].bonus

====
